---- MODULE Spec2Model ----
(***************************************************************************)
(* A model of the Utah Digital Newspapers RAG chatbot's indexing and       *)
(* retrieval layer: the FAISS vector store build/load life cycle           *)
(* (src/src/vectorstore_faiss.py), the Chroma migration                    *)
(* (src/src/migrate_to_chroma.py), the serving layer with its optional     *)
(* LLM post-processing (src/app.py, src/src/ollama_processor.py), the      *)
(* lite store and its builder (src/src/vectorstore_lite.py,                *)
(* src/build_lite.py), the embedding build                                 *)
(* (src/src/build_embeddings_full.py) and chunk_text (src/src/chunking.py).*)
(***************************************************************************)
EXTENDS Integers, Sequences, FiniteSets, TLC

VARIABLES
    \* ---- the corpus on disk (emb_dir / chunk_dir), fixed during a behaviour
    n_npy,            \* number of .npy files listed in emb_dir
    pattern,          \* the kinds of the files, alternating: <<kind of even files, kind of odd files>>
    bad_prefix,       \* the first bad_prefix files have no paired CSV
    \* ---- persisted artifacts of FAISSVectorStore (index_path, db_path)
    index_file_exists,
    index_file,       \* the vectors of the saved index, in id order
    index_file_kind,  \* "IndexFlatIP" or "IndexIVFPQ" ("none" when no file)
    db_exists,
    db,               \* committed rows of table documents, in insertion order
    \* ---- the running process (FAISSVectorStore.__init__ and what it calls)
    pc,               \* "down", "flat", "train", "comp", "built", "ready", "failed"
    max_files,        \* constructor argument; 0 stands for None
    total_files,      \* len(files) in _build_index
    use_compressed,
    file_idx,         \* loop variable of the build loops
    global_idx,
    all_embeddings,   \* _build_flat's list, flattened
    index,            \* self.index: the vectors added, in id order
    index_kind,       \* class of self.index
    txn,              \* rows inserted on the open connection and not yet committed
    n_clusters,
    train_count,      \* number of calls of index.train in this process
    error,            \* the exception that ended the constructor ("" if none)
    loaded,           \* TRUE when self.index came from _load_index
    resumed,          \* TRUE when this build started over rows committed by an interrupted build
    last_query,       \* the last search served: [ntotal, rows, ids] (ids = <<-2>> before any search)
    \* ---- the Chroma migration (migrate_to_chroma.py)
    mig_files,        \* the kinds of the .npy files of EMB_DIR, in sorted order
    collection,       \* per file, the set of the k for which id base_k is in the collection
    mig_pc,           \* "idle", "loop", "adding", "done"
    mig_idx,          \* position (from 1) of the file the loop is at
    add_i,            \* i of add_batch_safe's loop
    total_added,
    processed,
    skipped,
    errors,
    mig_interrupted,  \* TRUE once a run of the migration was interrupted
    vs_added,         \* what the last VectorStore.add_documents returned (-1 before any)
    vs_pc,            \* "idle", or "adding" while add_documents is in its loop
    vs_file,          \* the file whose ids the running add_documents was given
    vs_n,             \* len(ids) of the running add_documents
    vs_i,             \* i of its loop
    vs_count,         \* its local added
    \* ---- the serving process (app.py)
    app_pc,           \* "source", "syntax_error", "import", "llm_setup", "serving"
    lite_index_exists,
    lite_db_exists,
    LITE_MODE,
    vectorstore,      \* TRUE when the module global holds a LiteVectorStore
    model,            \* TRUE when the module global holds the embedder
    chatbot,          \* TRUE when the module global holds a RAGChatbot
    chatbot_error,
    LLM_BACKEND,
    groq_client,      \* TRUE when LLMProcessor.groq_client is set
    llm_processor,    \* "None" or "LLMProcessor"
    last_request,     \* [use_llm, retrieval, llm] of the last call of get_chatbot_response
    response,         \* what that call returned
    probes,           \* calls of llm_processor.is_available()
    probe_result,     \* "none", "available", "unavailable", "construct_failed"
    llm_invoked,      \* the last request entered process_rag_response
    last_health,      \* status of the last /api/health response ("none" before any)
    last_stats,       \* outcome of the last /api/stats response ("none" before any)
    \* ---- concurrent searches of one FAISSVectorStore (threads of the server)
    c_hits,           \* the store: the neighbours the index knows, with their rows
    c_hits0,          \* the store as it was when serving began
    c_journal,        \* journal mode of the database file
    t_pc,             \* per thread: "idle", "rows", "done"
    t_n,              \* per thread: n_results of its search
    t_valid,          \* per thread: the valid_indices still to look up
    c_buf,            \* the result lists under construction, per call frame
    t_ret,            \* per thread: what its last search returned
    \* ---- one query through the retrieval pipeline (rag_chatbot_faiss.py,
    \* ---- rag_chatbot.py, the lite branch of app.py, the stores' search)
    q_in,             \* the query and what the index and the stores hold for it
    q_pc,             \* "idle", "done"
    q_variant,        \* which pipeline answered: "none", "faiss", "chroma", "lite"
    q_out,            \* the response returned
    q_results,        \* what the store's search returned (four parallel lists)
    encode_calls,     \* calls of model.encode
    search_calls,     \* calls of vectorstore.search
    \* ---- phase 1 of _build_compressed over files of realistic sizes
    tr_files,         \* per file of the listing, the vectors it loads (0: the load returns None)
    tr_pc,            \* "load", "trained", "failed"
    tr_i,             \* files of files[:30] read so far
    training_data,    \* the sizes of the arrays gathered
    training_vectors, \* training_vectors.shape[0] (-1 before np.vstack)
    tr_n_clusters,    \* n_clusters (-1 before it is computed)
    \* ---- build_lite.py: the sampled index data/lite.index + data/lite.db
    bl_total,         \* number of .npy files listed in EMB_DIR
    bl_pattern,       \* the kinds of the files, repeating with period 3
    bl_pc,            \* "start", "loop", "done", "failed"
    bl_file_idx,      \* position in selected_files
    bl_global_idx,
    bl_embeddings,    \* all_embeddings: one segment [file, n] per appended sample
    bl_txn,           \* row segments inserted and not yet committed
    bl_db,            \* committed row segments of lite.db
    bl_index,         \* the segments of the written lite.index (<<>> if none written)
    \* ---- one chunk CSV, its ingestion and the text lookups of its rows
    lk_csv,           \* the raw chunk_text fields of the CSV's data rows
    lk_rows,          \* the row_num stored for each ingested chunk, in index order
    lk_pc,            \* "start", "ingested" ("idle" when unused)
    lk_found,         \* per ingested chunk, what _lookup_text returned ("unset" before)
    \* ---- build_embeddings_full.py
    emb_csvs,         \* the kinds of the chunk CSVs of base_dir, in sorted order
    npy,              \* the CSVs (by position) that have a saved .npy in save_dir
    e_pc,             \* "down", "loop", "encode", "save", "done" ("idle" when unused)
    processed_files,  \* the set computed at start from the saved .npy files
    e_files,          \* files: the CSVs left to process, in order
    e_i,              \* position (from 1) in e_files
    e_attempt,        \* attempts made at encoding the current file
    local_batch,
    e_last,           \* outcome of the last attempt: "none", "ok", "oom", "rt"
    e_index,          \* index: one segment [file, n] per index.add
    total_vectors,
    batch_count,
    index_partial,    \* the autosaved partial index file
    full_written,     \* index_path_full has been written
    index_full,       \* the segments of the index at index_path_full
    \* ---- one call of chunk_text (chunking.py)
    ct_text,          \* the argument text: [is_str, s]
    ct_size,          \* chunk_size
    ct_overlap,       \* overlap
    ct_pc,            \* "call", "loop", "done" ("idle" when unused)
    ct_start,         \* start
    ct_chunks,        \* chunks
    \* ---- the database connection of one search (both stores)
    cn_store,         \* "faiss" or "lite"
    cn_db_there,      \* os.path.exists(self.db_path)
    cn_get_db,        \* what _get_db does: "ok", "connect_raises", "pragma_raises"
    cn_selects,       \* per valid index, what its SELECT does
    cn_pc,            \* "call", "rows", "returned", "raised" ("idle" when unused)
    cn_i,             \* position (from 1) in valid_indices
    cn_open,          \* connections opened by the search and not closed
    cn_opened,        \* connections the search has opened
    cn_ids            \* len(ids)

store_vars == <<n_npy, pattern, bad_prefix, index_file_exists, index_file, index_file_kind,
                db_exists, db, pc, max_files, total_files, use_compressed, file_idx,
                global_idx, all_embeddings, index, index_kind, txn, n_clusters,
                train_count, error, loaded, resumed, last_query>>

mig_vars == <<mig_files, collection, mig_pc, mig_idx, add_i, total_added, processed,
              skipped, errors, mig_interrupted, vs_added, vs_pc, vs_file, vs_n, vs_i,
              vs_count>>

\* the call of add_documents in flight
vs_call == <<vs_pc, vs_file, vs_n, vs_i, vs_count>>

app_vars == <<app_pc, lite_index_exists, lite_db_exists, LITE_MODE, vectorstore, model,
              chatbot, chatbot_error, LLM_BACKEND, groq_client, llm_processor,
              last_request, response>>

q_vars == <<q_in, q_pc, q_variant, q_out, q_results, encode_calls, search_calls>>

svc_vars == <<probes, probe_result, llm_invoked, last_health, last_stats>>

conc_vars == <<c_hits, c_hits0, c_journal, t_pc, t_n, t_valid, c_buf, t_ret>>

train_vars == <<tr_files, tr_pc, tr_i, training_data, training_vectors, tr_n_clusters>>

core_vars == <<store_vars, mig_vars, app_vars, q_vars, svc_vars, conc_vars>>

lite_vars == <<bl_total, bl_pattern, bl_pc, bl_file_idx, bl_global_idx, bl_embeddings,
               bl_txn, bl_db, bl_index>>

lookup_vars == <<lk_csv, lk_rows, lk_pc, lk_found>>

emb_vars == <<emb_csvs, npy, e_pc, processed_files, e_files, e_i, e_attempt, local_batch,
              e_last, e_index, total_vectors, batch_count, index_partial, full_written,
              index_full>>

chunk_vars == <<ct_text, ct_size, ct_overlap, ct_pc, ct_start, ct_chunks>>

conn_vars == <<cn_store, cn_db_there, cn_get_db, cn_selects, cn_pc, cn_i, cn_open,
               cn_opened, cn_ids>>

tool_vars == <<train_vars, lite_vars, lookup_vars, emb_vars, chunk_vars, conn_vars>>

vars == <<core_vars, tool_vars>>

-----------------------------------------------------------------------------
(* Bounds of the model *)
MaxFiles == 2       \* small corpora have 0..MaxFiles files
MaxResults == 2     \* n_results of a search
MaxMigFiles == 2    \* files of a migration
MaxSources == 3     \* passages a retrieval returns
MaxQueryLen == 2    \* characters of a query text
MaxHits == 3        \* neighbours the index knows for a query, where rows and texts vary
MaxPapers == 4      \* distinct newspaper names
MaxDate == 2        \* distinct dates
MaxThreads == 2     \* searches in flight at once
MaxTrainFiles == 3  \* files the training loop of the compressed build sees
MaxLiteFiles == 3   \* small listings of build_lite.py have 0..MaxLiteFiles files
MaxCsvRows == 4     \* data rows of a chunk CSV
MaxEmbFiles == 2    \* chunk CSVs of an embedding build
MaxTextLen == 6     \* characters of a text given to chunk_text
MaxChunkSize == 3   \* chunk_size is 1..MaxChunkSize, overlap 0..MaxChunkSize
MaxChunks == 9      \* iterations of chunk_text's loop the model follows
MaxValid == 3       \* valid indices of a search whose connection is followed

(* Program constants *)
FLAT_LIMIT == 200           \* use_compressed = total_files > 200
FLAT_COMMIT_EVERY == 10     \* (file_idx + 1) % 10 == 0
COMP_COMMIT_EVERY == 50     \* (file_idx + 1) % 50 == 0
TRAIN_FILES == 30           \* files[:30]
training_target == 500000
MAX_CLUSTERS == 4096
VECTORS_PER_CLUSTER == 40   \* training_vectors.shape[0] // 40
QUICK_MAX_FILES == 50       \* app.py: MAX_FILES = None if INDEX_EXISTS else 50
BATCH_SIZE == 2000          \* migrate_to_chroma.py: ChromaDB batch size for inserts
TOP_K == 5                  \* RAGChatbot.query(top_k=5), vectorstore.search(n_results=5)
PAPERS_SHOWN == 3           \* sorted(papers)[:3]
TARGET_DOCS == 25000        \* build_lite.py
SAMPLE_FILES == 10          \* build_lite.py
EMB_BATCH_SIZE == 8         \* build_embeddings_full.py: BATCH_SIZE
MIN_BATCH == 4              \* max(4, local_batch // 2)
MAX_ATTEMPTS == 3           \* for attempt in range(3)
AUTOSAVE_INTERVAL == 25

-----------------------------------------------------------------------------
(* The corpus *)

Kinds == {"v1", "v2", "nocsv", "mismatch"}

\* One (.npy, .csv) pair: whether the CSV exists, the number of vectors in the
\* .npy and the number of data rows in the CSV.
FileDesc(k) ==
    CASE k = "v1"       -> [csv |-> TRUE,  n_vec |-> 1, n_rows |-> 1]
      [] k = "v2"       -> [csv |-> TRUE,  n_vec |-> 2, n_rows |-> 2]
      [] k = "nocsv"    -> [csv |-> FALSE, n_vec |-> 1, n_rows |-> 0]
      [] k = "mismatch" -> [csv |-> TRUE,  n_vec |-> 2, n_rows |-> 1]

\* The file at position i (0-based) of the sorted listing.
FileKind(i) == IF i < bad_prefix THEN "nocsv" ELSE pattern[(i % 2) + 1]
File(i) == FileDesc(FileKind(i))

\* Corpus sizes: the small ones, one past the first flat commit, and the two
\* sides of the mode threshold.
NpyCounts == (0..MaxFiles) \cup {FLAT_COMMIT_EVERY + 1, FLAT_LIMIT, FLAT_LIMIT + 1}

None == [ok |-> FALSE, embeddings |-> <<>>, rows |-> <<>>]

\* The data of file i with nv vectors and nr metadata rows.
FileData(i, nv, nr) ==
    [ok |-> TRUE,
     embeddings |-> [r \in 1..nv |-> <<i, r - 1>>],
     rows |-> [r \in 1..nr |-> [source_file |-> i, row_num |-> r - 1]]]

\* Mutant: the comparison of len(df) with embeddings.shape[0] is left out.
load_without_count_check(i) ==
    LET f == File(i) IN
    IF ~f.csv THEN None
    ELSE IF f.n_rows = 0 THEN None
    ELSE FileData(i, f.n_vec, f.n_rows)

\* Mutant: a mismatched file is cut to the shorter of the two counts
\* instead of being rejected.
load_truncating(i) ==
    LET f == File(i)
        m == IF f.n_rows < f.n_vec THEN f.n_rows ELSE f.n_vec
    IN IF ~f.csv THEN None
       ELSE IF m = 0 THEN None
       ELSE FileData(i, m, m)

\* FAISSVectorStore._load_file_embeddings_and_meta: None when the CSV is
\* missing, empty, or its row count differs from the vector count; else the
\* vectors (named by their origin <<file, row>>) and one metadata row per
\* CSV row, row_num being the row's position.
load_file_embeddings_and_meta(i) ==
    LET f == File(i) IN
    IF ~f.csv THEN None
    ELSE IF f.n_rows = 0 \/ f.n_rows # f.n_vec THEN None
    ELSE FileData(i, f.n_vec, f.n_rows)

\* files = sorted(.npy)[:max_files] if max_files else all of them
TotalFiles(n, mf) == IF mf # 0 /\ mf < n THEN mf ELSE n

\* Mutant: the threshold compared with >= instead of >.
UseCompressed_ge(total) == total >= FLAT_LIMIT

\* use_compressed = total_files > 200
UseCompressed(total) == total > FLAT_LIMIT

\* the batch built for one file: idx counts up from global_idx
BatchRows(g, rows) ==
    [r \in 1..Len(rows) |->
        [idx |-> g + r - 1, source_file |-> rows[r].source_file, row_num |-> rows[r].row_num]]

\* Mutant: one increment too many after each file.
NextGlobalIdx_gap(g, rows) == g + Len(rows) + 1

\* global_idx after the batch loop: one increment per row
NextGlobalIdx(g, rows) == g + Len(rows)

\* Mutant: the commit inside the loop never comes due.
CommitDue_never(fi, every) == FALSE

\* (file_idx + 1) % every == 0
CommitDue(fi, every) == (fi + 1) % every = 0

Idxs(s) == {s[k].idx : k \in 1..Len(s)}

\* INSERT INTO documents: idx is the PRIMARY KEY, so a batch holding an idx
\* already in the table (committed or pending) raises sqlite3.IntegrityError.
InsertCollides(batch) ==
    \/ Idxs(batch) \cap (Idxs(db) \cup Idxs(txn)) # {}
    \/ Cardinality(Idxs(batch)) # Len(batch)

-----------------------------------------------------------------------------
NoQuery == [ntotal |-> 0, rows |-> 0, ids |-> <<-2>>]

\* The state of a fresh process: total_files, use_compressed, index, its
\* class, loaded and resumed as given, every other field of the object empty.
SetMemory(tf, uc, ix, ik, ld, rs) ==
    /\ total_files' = tf
    /\ use_compressed' = uc
    /\ file_idx' = 0
    /\ global_idx' = 0
    /\ all_embeddings' = <<>>
    /\ index' = ix
    /\ index_kind' = ik
    /\ txn' = <<>>
    /\ n_clusters' = 0
    /\ train_count' = 0
    /\ loaded' = ld
    /\ resumed' = rs
    /\ last_query' = NoQuery

MemoryReset == SetMemory(0, FALSE, <<>>, "none", FALSE, FALSE)

StoreInit ==
    /\ n_npy \in NpyCounts
    /\ pattern \in Kinds \X Kinds
    /\ bad_prefix \in IF n_npy > TRAIN_FILES THEN {0, TRAIN_FILES} ELSE {0}
    /\ index_file_exists = FALSE
    /\ index_file = <<>>
    /\ index_file_kind = "none"
    /\ db_exists = FALSE
    /\ db = <<>>
    /\ pc = "down"
    /\ max_files = 0
    /\ total_files = 0
    /\ use_compressed = FALSE
    /\ file_idx = 0
    /\ global_idx = 0
    /\ all_embeddings = <<>>
    /\ index = <<>>
    /\ index_kind = "none"
    /\ txn = <<>>
    /\ n_clusters = 0
    /\ train_count = 0
    /\ error = ""
    /\ loaded = FALSE
    /\ resumed = FALSE
    /\ last_query = NoQuery

Corpus == <<n_npy, pattern, bad_prefix>>
Disk == <<index_file_exists, index_file, index_file_kind, db_exists, db>>

\* __init__ takes the load branch only when both files exist
CanLoad == index_file_exists /\ db_exists

\* FAISSVectorStore.__init__, load branch: _load_index(index_path)
StartLoad ==
    /\ pc \in {"down", "failed"}
    /\ CanLoad
    /\ \E mf \in {0, QUICK_MAX_FILES} : max_files' = mf
    /\ SetMemory(0, FALSE, index_file, index_file_kind, TRUE, FALSE)
    /\ pc' = "ready"
    /\ error' = ""
    /\ UNCHANGED <<Corpus, Disk>>

\* FAISSVectorStore.__init__, build branch, up to the choice of the mode:
\* _build_index lists the files, truncates them to max_files, runs _init_db
\* (CREATE TABLE IF NOT EXISTS: rows already in the file stay) and picks the mode.
StartBuild ==
    /\ pc \in {"down", "failed"}
    /\ ~CanLoad
    /\ \E mf \in {0, QUICK_MAX_FILES} :
        /\ max_files' = mf
        /\ SetMemory(TotalFiles(n_npy, mf), UseCompressed(TotalFiles(n_npy, mf)),
                     <<>>, "none", FALSE, Len(db) > 0)
        /\ pc' = IF UseCompressed(TotalFiles(n_npy, mf)) THEN "train" ELSE "flat"
    /\ db_exists' = TRUE
    /\ error' = ""
    /\ UNCHANGED <<Corpus, index_file_exists, index_file, index_file_kind, db>>

\* build_index.py: removes the old index and database, then constructs the
\* store with max_files = None.
BuildIndexScript ==
    /\ pc \in {"down", "failed"}
    /\ index_file_exists \/ db_exists
    /\ index_file_exists' = FALSE
    /\ index_file' = <<>>
    /\ index_file_kind' = "none"
    /\ db' = <<>>
    /\ db_exists' = TRUE
    /\ max_files' = 0
    /\ SetMemory(TotalFiles(n_npy, 0), UseCompressed(TotalFiles(n_npy, 0)),
                 <<>>, "none", FALSE, FALSE)
    /\ pc' = IF UseCompressed(TotalFiles(n_npy, 0)) THEN "train" ELSE "flat"
    /\ error' = ""
    /\ UNCHANGED Corpus

\* One iteration of the loop of _build_flat.
build_flat_step ==
    /\ pc = "flat"
    /\ file_idx < total_files
    /\ LET data == load_file_embeddings_and_meta(file_idx)
           batch == BatchRows(global_idx, data.rows)
       IN IF ~data.ok
          THEN \* continue
               /\ file_idx' = file_idx + 1
               /\ UNCHANGED <<pc, error, all_embeddings, global_idx, txn, db>>
          ELSE IF InsertCollides(batch)
          THEN \* executemany raises sqlite3.IntegrityError out of the constructor,
               \* after the append and after the batch loop advanced global_idx
               /\ pc' = "failed"
               /\ error' = "IntegrityError"
               /\ all_embeddings' = all_embeddings \o data.embeddings
               /\ global_idx' = NextGlobalIdx(global_idx, data.rows)
               /\ txn' = <<>>
               /\ UNCHANGED <<file_idx, db>>
          ELSE /\ all_embeddings' = all_embeddings \o data.embeddings
               /\ global_idx' = NextGlobalIdx(global_idx, data.rows)
               /\ IF CommitDue(file_idx, FLAT_COMMIT_EVERY)
                  THEN db' = db \o txn \o batch /\ txn' = <<>>
                  ELSE txn' = txn \o batch /\ db' = db
               /\ file_idx' = file_idx + 1
               /\ UNCHANGED <<pc, error>>
    /\ UNCHANGED <<Corpus, index_file_exists, index_file, index_file_kind, db_exists,
                   max_files, total_files, use_compressed, index, index_kind, n_clusters,
                   train_count, loaded, resumed, last_query>>

\* _build_flat after the loop: commit, close, then build the IndexFlatIP.
build_flat_finish ==
    /\ pc = "flat"
    /\ file_idx = total_files
    /\ db' = db \o txn
    /\ txn' = <<>>
    /\ IF all_embeddings = <<>>
       THEN /\ pc' = "failed"
            /\ error' = "NoEmbeddings"
            /\ UNCHANGED <<index, index_kind>>
       ELSE /\ index' = all_embeddings
            /\ index_kind' = "IndexFlatIP"
            /\ pc' = "built"
            /\ error' = ""
    /\ UNCHANGED <<Corpus, index_file_exists, index_file, index_file_kind, db_exists,
                   max_files, total_files, use_compressed, file_idx, global_idx,
                   all_embeddings, n_clusters, train_count, loaded, resumed, last_query>>

RECURSIVE TrainingLoaded_unchecked(_, _, _)
\* Mutant: the training loop takes the vectors of every .npy of files[:30],
\* whether or not the file loads with its metadata.
TrainingLoaded_unchecked(i, lim, acc) ==
    IF i >= lim \/ acc >= training_target THEN acc
    ELSE TrainingLoaded_unchecked(i + 1, lim, acc + File(i).n_vec)

RECURSIVE TrainingLoaded(_, _, _)
\* Phase 1 of _build_compressed: the number of vectors gathered from
\* files[:30], stopping once training_target is reached. i is the next file,
\* lim the number of files read at most, acc the vectors gathered so far.
TrainingLoaded(i, lim, acc) ==
    IF i >= lim \/ acc >= training_target THEN acc
    ELSE LET data == load_file_embeddings_and_meta(i)
         IN TrainingLoaded(i + 1, lim, IF data.ok THEN acc + Len(data.embeddings) ELSE acc)

Min(a, b) == IF a < b THEN a ELSE b

\* the sample after np.random.choice(..., training_target, replace=False)
TrainingSample(n) == IF n > training_target THEN training_target ELSE n

\* Mutant: the cluster count without its cap.
NClusters_uncapped(n) == n \div VECTORS_PER_CLUSTER

\* n_clusters = min(4096, training_vectors.shape[0] // 40)
NClusters(n) == Min(MAX_CLUSTERS, n \div VECTORS_PER_CLUSTER)

\* Phase 1 of _build_compressed. np.vstack of an empty list raises ValueError;
\* index.train is the external library's and may raise.
build_compressed_train ==
    /\ pc = "train"
    /\ LET n == TrainingLoaded(0, Min(TRAIN_FILES, total_files), 0)
       IN IF n = 0
          THEN /\ pc' = "failed"
               /\ error' = "EmptyTrainingSample"
               /\ UNCHANGED <<n_clusters, train_count, index_kind>>
          ELSE /\ n_clusters' = NClusters(TrainingSample(n))
               /\ index_kind' = "IndexIVFPQ"
               /\ train_count' = train_count + 1
               /\ \E train_ok \in BOOLEAN :
                    IF train_ok THEN pc' = "comp" /\ error' = ""
                    ELSE pc' = "failed" /\ error' = "TrainError"
    /\ UNCHANGED <<Corpus, Disk, max_files, total_files, use_compressed, file_idx,
                   global_idx, all_embeddings, index, txn, loaded, resumed, last_query>>

\* One iteration of the population loop of _build_compressed.
build_compressed_step ==
    /\ pc = "comp"
    /\ file_idx < total_files
    /\ LET data == load_file_embeddings_and_meta(file_idx)
           batch == BatchRows(global_idx, data.rows)
       IN IF ~data.ok
          THEN \* continue
               /\ file_idx' = file_idx + 1
               /\ UNCHANGED <<pc, error, index, global_idx, txn, db>>
          ELSE IF InsertCollides(batch)
          THEN \* executemany raises after index.add and the batch loop
               /\ pc' = "failed"
               /\ error' = "IntegrityError"
               /\ index' = index \o data.embeddings
               /\ global_idx' = NextGlobalIdx(global_idx, data.rows)
               /\ txn' = <<>>
               /\ UNCHANGED <<file_idx, db>>
          ELSE /\ index' = index \o data.embeddings
               /\ global_idx' = NextGlobalIdx(global_idx, data.rows)
               /\ IF CommitDue(file_idx, COMP_COMMIT_EVERY)
                  THEN db' = db \o txn \o batch /\ txn' = <<>>
                  ELSE txn' = txn \o batch /\ db' = db
               /\ file_idx' = file_idx + 1
               /\ UNCHANGED <<pc, error>>
    /\ UNCHANGED <<Corpus, index_file_exists, index_file, index_file_kind, db_exists,
                   max_files, total_files, use_compressed, all_embeddings, index_kind,
                   n_clusters, train_count, loaded, resumed, last_query>>

\* _build_compressed after the loop: commit, close, set nprobe.
build_compressed_finish ==
    /\ pc = "comp"
    /\ file_idx = total_files
    /\ db' = db \o txn
    /\ txn' = <<>>
    /\ pc' = "built"
    /\ UNCHANGED <<Corpus, index_file_exists, index_file, index_file_kind, db_exists,
                   max_files, total_files, use_compressed, file_idx, global_idx,
                   all_embeddings, index, index_kind, n_clusters, train_count, error,
                   loaded, resumed, last_query>>

\* __init__ after _build_index: _save_index(index_path), the only place the
\* index is written to disk.
save_index ==
    /\ pc = "built"
    /\ index_file_exists' = TRUE
    /\ index_file' = index
    /\ index_file_kind' = index_kind
    /\ pc' = "ready"
    /\ UNCHANGED <<Corpus, db_exists, db, max_files, total_files, use_compressed, file_idx,
                   global_idx, all_embeddings, index, index_kind, txn, n_clusters,
                   train_count, error, loaded, resumed, last_query>>

\* The ids index.search may return for n results: distinct valid ids first,
\* then -1 padding. The ids tried are the first and the last one.
ProbeIds == {i \in {0, Len(index) - 1} : 0 <= i /\ i < Len(index)}

Hits(n) ==
    {h \in [1..n -> ProbeIds \cup {-1}] :
        /\ \A a, b \in 1..n : (a < b /\ h[a] = -1) => h[b] = -1
        /\ \A a, b \in 1..n : (a # b /\ h[a] >= 0) => h[a] # h[b]}

IsValidHit(i) == i >= 0
HasRow(i) == i \in Idxs(db)

\* FAISSVectorStore.search: keep the ids >= 0, and of these the ones that
\* have a row in documents (when the database file exists).
search(h) ==
    LET valid_indices == SelectSeq(h, IsValidHit)
    IN IF valid_indices # <<>> /\ db_exists
       THEN SelectSeq(valid_indices, HasRow)
       ELSE <<>>

Query ==
    /\ pc = "ready"
    /\ \E n \in 1..MaxResults : \E h \in Hits(n) :
         last_query' = [ntotal |-> Len(index), rows |-> Len(db), ids |-> search(h)]
    /\ UNCHANGED <<Corpus, Disk, pc, max_files, total_files, use_compressed, file_idx,
                   global_idx, all_embeddings, index, index_kind, txn, n_clusters,
                   train_count, error, loaded, resumed>>

\* The process is killed (or the machine stops) during a build: memory and
\* the open transaction are lost, the files stay as they are.
Crash ==
    /\ pc \in {"flat", "train", "comp", "built"}
    /\ pc' = "down"
    /\ max_files' = 0
    /\ error' = ""
    /\ MemoryReset
    /\ UNCHANGED <<Corpus, Disk>>

\* The serving process ends normally.
Stop ==
    /\ pc = "ready"
    /\ pc' = "down"
    /\ max_files' = 0
    /\ error' = ""
    /\ MemoryReset
    /\ UNCHANGED <<Corpus, Disk>>

\* The metadata file goes missing while the index file stays (the situation
\* of "Metadata Store file missing when the Vector Index expects it").
DbFileLost ==
    /\ pc \in {"down", "failed"}
    /\ db_exists
    /\ index_file_exists
    /\ db_exists' = FALSE
    /\ db' = <<>>
    /\ UNCHANGED <<Corpus, index_file_exists, index_file, index_file_kind, pc, max_files,
                   total_files, use_compressed, file_idx, global_idx, all_embeddings,
                   index, index_kind, txn, n_clusters, train_count, error, loaded,
                   resumed, last_query>>

\* The store before anything ran, over an empty corpus.
StoreIdle ==
    /\ n_npy = 0
    /\ pattern = <<"v1", "v1">>
    /\ bad_prefix = 0
    /\ index_file_exists = FALSE
    /\ index_file = <<>>
    /\ index_file_kind = "none"
    /\ db_exists = FALSE
    /\ db = <<>>
    /\ pc = "down"
    /\ max_files = 0
    /\ total_files = 0
    /\ use_compressed = FALSE
    /\ file_idx = 0
    /\ global_idx = 0
    /\ all_embeddings = <<>>
    /\ index = <<>>
    /\ index_kind = "none"
    /\ txn = <<>>
    /\ n_clusters = 0
    /\ train_count = 0
    /\ error = ""
    /\ loaded = FALSE
    /\ resumed = FALSE
    /\ last_query = NoQuery

-----------------------------------------------------------------------------
(* The Chroma migration: migrate_to_chroma.py *)

MigKinds == {"nocsv", "badshape", "empty", "nocol", "mismatch", "unreadable", "ok1", "okB", "okB1"}

\* One (.npy, .csv) pair of the migration: whether the CSV exists, whether
\* np.load and read_csv succeed, whether the array is two-dimensional, its row count, the CSV's row count and whether the
\* CSV has a chunk_text column.
MigDesc(k) ==
    CASE k = "nocsv"    -> [csv |-> FALSE, loads |-> TRUE,  ndim2 |-> TRUE,  n_vec |-> 1, n_rows |-> 0, has_text |-> TRUE]
      [] k = "badshape" -> [csv |-> TRUE,  loads |-> TRUE,  ndim2 |-> FALSE, n_vec |-> 1, n_rows |-> 1, has_text |-> TRUE]
      [] k = "empty"    -> [csv |-> TRUE,  loads |-> TRUE,  ndim2 |-> TRUE,  n_vec |-> 0, n_rows |-> 0, has_text |-> TRUE]
      [] k = "nocol"    -> [csv |-> TRUE,  loads |-> TRUE,  ndim2 |-> TRUE,  n_vec |-> 1, n_rows |-> 1, has_text |-> FALSE]
      [] k = "mismatch" -> [csv |-> TRUE,  loads |-> TRUE,  ndim2 |-> TRUE,  n_vec |-> 2, n_rows |-> 1, has_text |-> TRUE]
      [] k = "unreadable" -> [csv |-> TRUE,  loads |-> FALSE, ndim2 |-> TRUE, n_vec |-> 1, n_rows |-> 1,
                              has_text |-> TRUE]
      [] k = "ok1"      -> [csv |-> TRUE,  loads |-> TRUE,  ndim2 |-> TRUE,  n_vec |-> 1, n_rows |-> 1, has_text |-> TRUE]
      [] k = "okB"      -> [csv |-> TRUE,  loads |-> TRUE,  ndim2 |-> TRUE,  n_vec |-> BATCH_SIZE, n_rows |-> BATCH_SIZE,
                            has_text |-> TRUE]
      [] k = "okB1"     -> [csv |-> TRUE,  loads |-> TRUE,  ndim2 |-> TRUE,  n_vec |-> BATCH_SIZE + 1,
                            n_rows |-> BATCH_SIZE + 1, has_text |-> TRUE]

MigFile(p) == MigDesc(mig_files[p])

\* check_already_ingested(base): the id base_0 is in the collection; when
\* collection.get raises (get_ok FALSE) the answer is False.
check_already_ingested(p, get_ok) == get_ok /\ 0 \in collection[p]

\* Mutant: an empty CSV is passed over without being counted.
MigDecision_uncounted(p, get_ok) ==
    LET f == MigFile(p) IN
    IF ~f.csv THEN "skip"
    ELSE IF check_already_ingested(p, get_ok) THEN "skip"
    ELSE IF ~f.loads THEN "error"
    ELSE IF ~f.ndim2 THEN "error"
    ELSE IF f.n_rows = 0 THEN "pass"
    ELSE IF ~f.has_text THEN "error"
    ELSE IF f.n_rows # f.n_vec THEN "error"
    ELSE "add"

\* What the loop body of run_migration does with file p before any insert:
\* "skip", "error", or "add". An exception of np.load or of both read_csv
\* attempts is caught by the outer except and counted as an error.
MigDecision(p, get_ok) ==
    LET f == MigFile(p) IN
    IF ~f.csv THEN "skip"
    ELSE IF check_already_ingested(p, get_ok) THEN "skip"
    ELSE IF ~f.loads THEN "error"
    ELSE IF ~f.ndim2 THEN "error"
    ELSE IF f.n_rows = 0 THEN "skip"
    ELSE IF ~f.has_text THEN "error"
    ELSE IF f.n_rows # f.n_vec THEN "error"
    ELSE "add"

MigInit ==
    /\ mig_files \in UNION {[1..n -> MigKinds] : n \in 0..MaxMigFiles}
    /\ collection = [p \in 1..Len(mig_files) |-> {}]
    /\ mig_pc = "idle"
    /\ mig_idx = 1
    /\ add_i = 0
    /\ total_added = 0
    /\ processed = 0
    /\ skipped = 0
    /\ errors = 0
    /\ mig_interrupted = FALSE
    /\ vs_added = -1
    /\ vs_pc = "idle"
    /\ vs_file = 0
    /\ vs_n = 0
    /\ vs_i = 0
    /\ vs_count = 0

MigIdle ==
    /\ mig_files = <<>>
    /\ collection = <<>>
    /\ mig_pc = "idle"
    /\ mig_idx = 1
    /\ add_i = 0
    /\ total_added = 0
    /\ processed = 0
    /\ skipped = 0
    /\ errors = 0
    /\ mig_interrupted = FALSE
    /\ vs_added = -1
    /\ vs_pc = "idle"
    /\ vs_file = 0
    /\ vs_n = 0
    /\ vs_i = 0
    /\ vs_count = 0

\* run_migration up to the loop: list the files, return at once if there are
\* none, reset the counters.
run_migration_start ==
    /\ mig_pc \in {"idle", "done"}
    /\ mig_pc' = IF mig_files = <<>> THEN "done" ELSE "loop"
    /\ mig_idx' = 1
    /\ add_i' = 0
    /\ total_added' = 0
    /\ processed' = 0
    /\ skipped' = 0
    /\ errors' = 0
    /\ UNCHANGED <<mig_files, collection, mig_interrupted, vs_added, vs_call>>

\* One iteration of the loop up to add_batch_safe. get_ok: the
\* collection.get of check_already_ingested returns.
run_migration_file ==
    /\ mig_pc = "loop"
    /\ mig_idx <= Len(mig_files)
    /\ \E get_ok \in BOOLEAN : LET d == MigDecision(mig_idx, get_ok) IN
        /\ skipped' = IF d = "skip" THEN skipped + 1 ELSE skipped
        /\ errors' = IF d = "error" THEN errors + 1 ELSE errors
        /\ mig_pc' = IF d = "add" THEN "adding" ELSE "loop"
        /\ mig_idx' = IF d = "add" THEN mig_idx ELSE mig_idx + 1
    /\ add_i' = 0
    /\ UNCHANGED <<mig_files, collection, total_added, processed, mig_interrupted, vs_added, vs_call>>

\* One iteration of add_batch_safe: collection.add(ids[i:j], ...), each call
\* persisted by the PersistentClient. After the last one the file is counted
\* as processed. A call that raises is caught by the outer except of
\* run_migration: the file is counted as an error, the batches already
\* added stay, and the loop goes on. Ids the collection already holds (a
\* file that reached here because check_already_ingested answered False
\* over an exception) are not added a second time.
add_batch_safe_step ==
    /\ mig_pc = "adding"
    /\ LET n == MigFile(mig_idx).n_rows
           j == IF add_i + BATCH_SIZE < n THEN add_i + BATCH_SIZE ELSE n
       IN \E add_ok \in BOOLEAN :
          IF ~add_ok
          THEN /\ errors' = errors + 1
               /\ add_i' = 0
               /\ mig_pc' = "loop"
               /\ mig_idx' = mig_idx + 1
               /\ UNCHANGED <<collection, total_added, processed>>
          ELSE /\ collection' = [collection EXCEPT ![mig_idx] = @ \cup (add_i..(j - 1))]
               /\ errors' = errors
               /\ IF j < n
                  THEN /\ add_i' = j
                       /\ UNCHANGED <<mig_pc, mig_idx, total_added, processed>>
                  ELSE /\ add_i' = 0
                       /\ total_added' = total_added + n
                       /\ processed' = processed + 1
                       /\ mig_pc' = "loop"
                       /\ mig_idx' = mig_idx + 1
    /\ UNCHANGED <<mig_files, skipped, mig_interrupted, vs_added, vs_call>>

\* The loop has ended: the final summary.
run_migration_finish ==
    /\ mig_pc = "loop"
    /\ mig_idx > Len(mig_files)
    /\ mig_pc' = "done"
    /\ UNCHANGED <<mig_files, collection, mig_idx, add_i, total_added, processed, skipped,
                   errors, mig_interrupted, vs_added, vs_call>>

\* The migration is killed: its counters are lost, the persistent collection
\* keeps every batch added so far.
MigCrash ==
    /\ mig_pc \in {"loop", "adding"}
    /\ mig_pc' = "idle"
    /\ mig_idx' = 1
    /\ add_i' = 0
    /\ total_added' = 0
    /\ processed' = 0
    /\ skipped' = 0
    /\ errors' = 0
    /\ mig_interrupted' = TRUE
    /\ UNCHANGED <<mig_files, collection, vs_added, vs_call>>

\* VectorStore.add_documents is called on the collection of the migration
\* with the first k ids of file p (k is 0, 1 or all of them): added = 0, and
\* with no id the loop is empty and the call returns 0.
add_documents ==
    /\ vs_pc = "idle"
    /\ mig_files # <<>>
    /\ \E p \in 1..Len(mig_files) : \E k \in {0, 1, MigFile(p).n_vec} :
         /\ vs_file' = p
         /\ vs_n' = k
         /\ vs_pc' = IF k = 0 THEN "idle" ELSE "adding"
         /\ vs_added' = IF k = 0 THEN 0 ELSE vs_added
    /\ vs_i' = 0
    /\ vs_count' = 0
    /\ UNCHANGED <<mig_files, collection, mig_pc, mig_idx, add_i, total_added, processed,
                   skipped, errors, mig_interrupted>>

\* One iteration of the loop of add_documents: collection.add(ids[i:j], ...),
\* persisted at once, and added += j - i; after the last one the call
\* returns added. A collection.add that raises ends the call without a
\* return value, the batches already added stay. Ids the collection
\* already holds are not added a second time.
add_documents_step ==
    /\ vs_pc = "adding"
    /\ LET j == IF vs_i + BATCH_SIZE < vs_n THEN vs_i + BATCH_SIZE ELSE vs_n
       IN \E add_ok \in BOOLEAN :
          IF ~add_ok
          THEN /\ vs_pc' = "idle"
               /\ UNCHANGED <<collection, vs_i, vs_count, vs_added>>
          ELSE /\ collection' = [collection EXCEPT ![vs_file] = @ \cup (vs_i..(j - 1))]
               /\ vs_i' = j
               /\ vs_count' = vs_count + (j - vs_i)
               /\ vs_pc' = IF j < vs_n THEN "adding" ELSE "idle"
               /\ vs_added' = IF j < vs_n THEN vs_added ELSE vs_count + (j - vs_i)
    /\ UNCHANGED <<mig_files, mig_pc, mig_idx, add_i, total_added, processed, skipped,
                   errors, mig_interrupted, vs_file, vs_n>>

\* VectorStore.delete_collection: the collection is deleted and created
\* again, empty.
delete_collection ==
    /\ collection' = [p \in 1..Len(mig_files) |-> {}]
    /\ UNCHANGED <<mig_files, mig_pc, mig_idx, add_i, total_added, processed, skipped,
                   errors, mig_interrupted, vs_added, vs_call>>

-----------------------------------------------------------------------------
(* The serving process: app.py and ollama_processor.py *)

NoRequest == [use_llm |-> FALSE, retrieval |-> -3, llm |-> "none"]
NoResponse == [answer |-> "(no response)", sources |-> <<>>, llm_summary |-> ""]

\* LiteVectorStore.__init__: both files must exist, then faiss.read_index
\* loads the index and may raise (read_ok FALSE: a file that is not an index).
LiteStoreInit(index_there, db_there, read_ok) ==
    IF ~index_there THEN "Index not found"
    ELSE IF ~db_there THEN "Database not found"
    ELSE IF ~read_ok THEN "Error in read_index"
    ELSE "ok"

AppInit ==
    /\ app_pc = "source"
    /\ lite_index_exists \in BOOLEAN
    /\ lite_db_exists \in BOOLEAN
    /\ LITE_MODE = FALSE
    /\ vectorstore = FALSE
    /\ model = FALSE
    /\ chatbot = FALSE
    /\ chatbot_error = ""
    /\ LLM_BACKEND = "groq"
    /\ groq_client = FALSE
    /\ llm_processor = "None"
    /\ last_request = NoRequest
    /\ response = NoResponse
    /\ probes = 0
    /\ probe_result = "none"
    /\ llm_invoked = FALSE
    /\ last_health = "none"
    /\ last_stats = "none"

AppIdle ==
    /\ app_pc = "source"
    /\ lite_index_exists = FALSE
    /\ lite_db_exists = FALSE
    /\ LITE_MODE = FALSE
    /\ vectorstore = FALSE
    /\ model = FALSE
    /\ chatbot = FALSE
    /\ chatbot_error = ""
    /\ LLM_BACKEND = "groq"
    /\ groq_client = FALSE
    /\ llm_processor = "None"
    /\ last_request = NoRequest
    /\ response = NoResponse
    /\ probes = 0
    /\ probe_result = "none"
    /\ llm_invoked = FALSE
    /\ last_health = "none"
    /\ last_stats = "none"

\* python app.py / import app: the interpreter compiles the file before any
\* line runs. The module docstring (lines 1-6) is a non-raw string holding
\* E:\UDN_Project, and Python 3 rejects a \U escape that is not followed by
\* eight hex digits: SyntaxError, no global is bound, no route is registered
\* (accepted = FALSE). accepted = TRUE is an interpreter that takes the
\* docstring as text; the module body of lines 8-235 then runs.
app_compile ==
    /\ app_pc = "source"
    /\ \E accepted \in BOOLEAN :
         app_pc' = IF accepted THEN "import" ELSE "syntax_error"
    /\ UNCHANGED <<lite_index_exists, lite_db_exists, LITE_MODE, vectorstore, model, chatbot,
                   chatbot_error, LLM_BACKEND, groq_client, llm_processor, last_request,
                   response>>
    /\ UNCHANGED svc_vars

\* app.py, RAG CHATBOT SETUP: LITE_MODE is whether data/lite.index exists; the
\* store and the embedder are built inside one try block, and any exception
\* leaves chatbot_error set and the globals built so far in place.
\* st_import_ok: sentence_transformers imports; read_ok: faiss.read_index
\* reads lite.index; model_ok: the embedder loads; full_ok: RAGChatbot(...)
\* constructs.
app_store_setup ==
    /\ app_pc = "import"
    /\ LITE_MODE' = lite_index_exists
    /\ \E st_import_ok, read_ok, model_ok, full_ok \in BOOLEAN :
        IF ~st_import_ok
        THEN /\ chatbot_error' = "import failed"
             /\ UNCHANGED <<vectorstore, model, chatbot>>
        ELSE IF lite_index_exists
        THEN LET r == LiteStoreInit(lite_index_exists, lite_db_exists, read_ok) IN
             IF r # "ok"
             THEN /\ chatbot_error' = r
                  /\ UNCHANGED <<vectorstore, model, chatbot>>
             ELSE /\ vectorstore' = TRUE
                  /\ model' = model_ok
                  /\ chatbot_error' = IF model_ok THEN "" ELSE "model failed"
                  /\ UNCHANGED chatbot
        ELSE /\ chatbot' = full_ok
             /\ chatbot_error' = IF full_ok THEN "" ELSE "store failed"
             /\ UNCHANGED <<vectorstore, model>>
    /\ app_pc' = "llm_setup"
    /\ UNCHANGED <<lite_index_exists, lite_db_exists, LLM_BACKEND, groq_client, llm_processor,
                   last_request, response>>
    /\ UNCHANGED svc_vars

\* LLMProcessor.__init__: the Groq client exists when the backend is groq,
\* the groq package is installed and a key is set.
LLMProcessorInit(backend, has_groq, key_set) == backend = "groq" /\ has_groq /\ key_set

\* LLMProcessor.is_available
is_available(backend, client, has_requests, ollama_up) ==
    IF backend = "groq" THEN client
    ELSE IF backend = "ollama" /\ has_requests THEN ollama_up
    ELSE FALSE

\* app.py, LLM INTEGRATION: construct the processor, probe it once, and keep
\* it only when it is available. import_ok: ollama_processor imports and the
\* constructor returns.
app_llm_setup ==
    /\ app_pc = "llm_setup"
    /\ \E backend \in {"groq", "ollama", "other"} :
       \E import_ok, has_groq, key_set, has_requests, ollama_up \in BOOLEAN :
        /\ LLM_BACKEND' = backend
        /\ IF ~import_ok
           THEN /\ groq_client' = FALSE /\ llm_processor' = "None"
                /\ probes' = probes
                /\ probe_result' = "construct_failed"
           ELSE /\ groq_client' = LLMProcessorInit(backend, has_groq, key_set)
                /\ llm_processor' =
                     IF is_available(backend, LLMProcessorInit(backend, has_groq, key_set),
                                     has_requests, ollama_up)
                     THEN "LLMProcessor" ELSE "None"
                /\ probes' = probes + 1
                /\ probe_result' =
                     IF is_available(backend, LLMProcessorInit(backend, has_groq, key_set),
                                     has_requests, ollama_up)
                     THEN "available" ELSE "unavailable"
    /\ app_pc' = "serving"
    /\ UNCHANGED <<lite_index_exists, lite_db_exists, LITE_MODE, vectorstore, model, chatbot,
                   chatbot_error, last_request, response, llm_invoked, last_health, last_stats>>

\* The passages of a retrieval that found n of them, in rank order.
Sources(n) == [i \in 1..n |-> [rank |-> i]]

FoundText == <<"Found 1 relevant article", "Found 2 relevant articles",
               "Found 3 relevant articles", "Found 4 relevant articles",
               "Found 5 relevant articles">>

\* The response retrieval computes: an exception becomes "Search error", no id
\* becomes "No relevant articles found.", else the extractive answer and the
\* sources. retrieval is -1 for an exception, else the number of results.
RetrievalResponse(retrieval) ==
    IF retrieval < 0
    THEN [answer |-> "Search error", sources |-> <<>>, llm_summary |-> ""]
    ELSE IF retrieval = 0
    THEN [answer |-> "No relevant articles found.", sources |-> <<>>, llm_summary |-> ""]
    ELSE [answer |-> FoundText[retrieval], sources |-> Sources(retrieval), llm_summary |-> ""]

\* LLMProcessor._call_llm with _call_groq and _call_ollama: what the backend
\* does is outcome ("text", "empty", "raise", "timeout", "http_error"); every
\* exception is caught there and gives the empty string.
call_llm(backend, client, outcome) ==
    IF backend = "groq" /\ client
    THEN IF outcome = "text" THEN "LLM answer" ELSE ""
    ELSE IF backend = "ollama"
    THEN IF outcome = "text" THEN "LLM answer" ELSE ""
    ELSE ""

\* Mutant: the LLM's answer replaces the extractive one even when it is empty.
process_rag_response_unguarded(rag_response, llm_answer) ==
    IF rag_response.sources = <<>> THEN rag_response
    ELSE [rag_response EXCEPT !.answer = llm_answer, !.llm_summary = llm_answer]

\* LLMProcessor.process_rag_response: a copy of the response, its answer
\* replaced (and llm_summary set) only when there are sources and the LLM
\* returned a non-empty answer. llm_summary "" stands for the absent key.
process_rag_response(rag_response, llm_answer) ==
    IF rag_response.sources = <<>> THEN rag_response
    ELSE IF llm_answer # ""
    THEN [rag_response EXCEPT !.answer = llm_answer, !.llm_summary = llm_answer]
    ELSE rag_response

\* A test that looks at the request's flag only.
llm_enabled_by_flag(use_llm) == use_llm

\* "if use_llm and llm_processor"
llm_enabled(use_llm) == use_llm /\ llm_processor # "None"

\* The lite branch is taken: "if LITE_MODE and vectorstore and model".
InLite == LITE_MODE /\ vectorstore /\ model

\* The "if use_llm and llm_processor: try: ... except" step of
\* get_chatbot_response. outcome "raise_outer" is an exception that escapes
\* process_rag_response and is caught here.
apply_llm(rag_response, use_llm, outcome) ==
    IF llm_enabled(use_llm)
    THEN IF outcome = "raise_outer" THEN rag_response
         ELSE process_rag_response(rag_response, call_llm(LLM_BACKEND, groq_client, outcome))
    ELSE rag_response

LLMOutcomes == {"text", "empty", "raise", "timeout", "http_error", "raise_outer"}

\* get_chatbot_response(user_query, use_llm)
get_chatbot_response ==
    /\ app_pc = "serving"
    /\ \E use_llm \in BOOLEAN : \E retrieval \in -1..MaxSources : \E outcome \in LLMOutcomes :
        IF InLite \/ chatbot
        THEN /\ last_request' = [use_llm |-> use_llm, retrieval |-> retrieval, llm |-> outcome]
             /\ llm_invoked' = (llm_enabled(use_llm) /\ retrieval >= (IF InLite THEN 1 ELSE 0))
             /\ response' = IF retrieval < 0 THEN RetrievalResponse(retrieval)
                            ELSE apply_llm(RetrievalResponse(retrieval), use_llm, outcome)
        ELSE /\ last_request' = [use_llm |-> use_llm, retrieval |-> -2, llm |-> "none"]
             /\ response' = [answer |-> "Chatbot not initialized", sources |-> <<>>,
                             llm_summary |-> ""]
             /\ llm_invoked' = FALSE
    /\ UNCHANGED <<app_pc, lite_index_exists, lite_db_exists, LITE_MODE, vectorstore, model,
                   chatbot, chatbot_error, LLM_BACKEND, groq_client, llm_processor>>
    /\ UNCHANGED <<probes, probe_result, last_health, last_stats>>

\* A status that is always "healthy".
health_status_always == "healthy"

\* /api/health: "healthy" if (vectorstore or chatbot) else "degraded"
health_status == IF vectorstore \/ chatbot THEN "healthy" ELSE "degraded"

\* GET /api/health
health ==
    /\ app_pc = "serving"
    /\ last_health' = health_status
    /\ UNCHANGED <<app_vars, probes, probe_result, llm_invoked, last_stats>>

\* /api/stats: the lite store's figures, else the chatbot's, else 503
\* "Not initialized".
stats_outcome ==
    IF LITE_MODE /\ vectorstore THEN "lite"
    ELSE IF chatbot THEN "full"
    ELSE "not_initialized"

\* GET /api/stats
stats ==
    /\ app_pc = "serving"
    /\ last_stats' = stats_outcome
    /\ UNCHANGED <<app_vars, probes, probe_result, llm_invoked, last_health>>

-----------------------------------------------------------------------------
(* The retrieval pipeline: the stores' search, RAGChatbot.query with          *)
(* _format_sources and _format_answer, and the lite branch of               *)
(* get_chatbot_response. Scores, distances and relevances are in hundredths. *)

\* The characters of a query text: a blank and a letter.
Chars == {" ", "a"}

Queries == UNION {[1..n -> Chars] : n \in 0..MaxQueryLen}

RECURSIVE lstrip(_)
lstrip(s) == IF s # <<>> /\ Head(s) = " " THEN lstrip(Tail(s)) ELSE s

RECURSIVE rstrip(_)
rstrip(s) == IF s # <<>> /\ s[Len(s)] = " " THEN rstrip(SubSeq(s, 1, Len(s) - 1)) ELSE s

\* str.strip()
strip(s) == rstrip(lstrip(s))

\* A test that lets a query of blanks through.
IsEmptyQuery(s) == s = <<>>

\* "not user_question or not user_question.strip()"
IsBlankQuery(s) == s = <<>> \/ strip(s) = <<>>

\* What lazy text resolution finds for a row: the CSV is there with the row
\* and its chunk_text, or it is missing, unreadable, too short, or without a
\* chunk_text column.
CsvStates == {"ok", "missing", "unreadable", "norow", "nocol"}

\* One neighbour the index knows for the query, at index position idx, with
\* its score; row says whether the documents table has a row with that idx,
\* and paper, date, time are that row's paper (0: empty), date (0: empty) and
\* whether the stored date carries a "T..." time part; csv is the state of the
\* row's chunk CSV.
Hit(i, sc, r, c, p, d, t) ==
    [idx |-> i, score |-> sc, row |-> r, csv |-> c, paper |-> p, date |-> d, time |-> t]

\* The scores an index of each kind returns: inner products of normalised
\* vectors for IndexFlatIP; squared L2 distances of normalised vectors for
\* IndexIVFPQ, which is constructed without a metric argument.
Scores(kind) == IF kind = "IndexFlatIP" THEN {-20, 50, 100} ELSE {0, 50, 150}

\* The index returns its neighbours best first: largest inner product first,
\* smallest L2 distance first.
Ranked(kind, scs) ==
    \A i \in 1..(Len(scs) - 1) :
        IF kind = "IndexFlatIP" THEN scs[i] >= scs[i + 1] ELSE scs[i] <= scs[i + 1]

QueryInput(text, kind, db_there, hits) ==
    [text |-> text, kind |-> kind, db_there |-> db_there, hits |-> hits]

PlainHits == <<Hit(0, 100, TRUE, "ok", 1, 1, FALSE), Hit(1, 50, TRUE, "ok", 2, 2, FALSE)>>

\* Query texts over a small store.
TextInputs == {QueryInput(t, "IndexFlatIP", TRUE, PlainHits) : t \in Queries}

\* Neighbours with and without a metadata row, for both index kinds, with the
\* database file present or not.
RowInputs ==
    UNION {
      UNION {
        { QueryInput(<<"a">>, kind, dbt,
                     [i \in 1..n |-> Hit(i - 1, scs[i], rws[i], "ok", 1, 1, FALSE)]) :
            scs \in {x \in [1..n -> Scores(kind)] : Ranked(kind, x)},
            rws \in [1..n -> BOOLEAN],
            dbt \in BOOLEAN }
        : n \in 0..MaxHits }
      : kind \in {"IndexFlatIP", "IndexIVFPQ"} }

\* Neighbours whose chunk CSVs are in every state.
CsvInputs ==
    UNION {
        { QueryInput(<<"a">>, "IndexFlatIP", TRUE,
                     [i \in 1..n |-> Hit(i - 1, 50, TRUE, cs[i], 1, 1, FALSE)]) :
            cs \in [1..n -> CsvStates] }
        : n \in 1..MaxHits }

\* Neighbours with every combination of papers.
PaperInputs ==
    UNION {
        { QueryInput(<<"a">>, "IndexFlatIP", TRUE,
                     [i \in 1..n |-> Hit(i - 1, 50, TRUE, "ok", ps[i], 1, FALSE)]) :
            ps \in [1..n -> 0..MaxPapers] }
        : n \in 1..TOP_K }

\* A stored date: empty, or a date with or without a "T..." time part.
StoredDates == {<<0, FALSE>>} \cup ((1..MaxDate) \X BOOLEAN)

\* Neighbours with every combination of dates, with and without a time part.
DateInputs ==
    UNION {
        { QueryInput(<<"a">>, "IndexFlatIP", TRUE,
                     [i \in 1..n |-> Hit(i - 1, 50, TRUE, "ok", 1, ds[i][1], ds[i][2])]) :
            ds \in [1..n -> StoredDates] }
        : n \in 1..MaxHits }

\* More neighbours than a search asks for.
OverfullInputs ==
    {QueryInput(<<"a">>, "IndexFlatIP", TRUE,
                [i \in 1..(TOP_K + 1) |-> Hit(i - 1, 50, i # 2, "ok", 1, 1, FALSE)])}

QueryInputs ==
    TextInputs \cup RowInputs \cup CsvInputs \cup PaperInputs \cup DateInputs \cup OverfullInputs

NoResults == [ids |-> <<>>, documents |-> <<>>, metadatas |-> <<>>, distances |-> <<>>]

NoAnswer == [kind |-> "none", n |-> 0, papers |-> <<>>, more |-> 0, dates |-> <<>>]

NoOutput == [answer |-> NoAnswer, sources |-> <<>>]

QIdle ==
    /\ q_in = QueryInput(<<>>, "IndexFlatIP", TRUE, <<>>)
    /\ q_pc = "idle"
    /\ q_variant = "none"
    /\ q_out = NoOutput
    /\ q_results = NoResults
    /\ encode_calls = 0
    /\ search_calls = 0

QInit ==
    /\ q_in \in QueryInputs
    /\ q_pc = "idle"
    /\ q_variant = "none"
    /\ q_out = NoOutput
    /\ q_results = NoResults
    /\ encode_calls = 0
    /\ search_calls = 0

\* self.index.search(query, n_results): the scores and positions of the
\* n_results nearest neighbours, padded with position -1 when the index knows
\* fewer.
index_search(hits, n_results) ==
    [k \in 1..n_results |->
        IF k <= Len(hits) THEN [score |-> hits[k].score, idx |-> hits[k].idx]
        ELSE [score |-> 0, idx |-> -1]]

IsValidIndex(r) == r.idx >= 0

\* "if row:" after SELECT ... FROM documents WHERE idx = ?
row_found_always(h) == TRUE

row_found(h) == h.row

\* A failed lookup that yields the text "nan" instead of the empty string.
lookup_text_nan(h) == IF h.csv = "ok" THEN "text" ELSE "nan"

\* FAISSVectorStore._lookup_text: the chunk_text of the row, or "" when the
\* CSV is missing, cannot be read, has no such row or no chunk_text column.
lookup_text(h) ==
    IF h.csv = "missing" THEN ""
    ELSE IF h.csv = "unreadable" THEN ""
    ELSE IF h.csv = "ok" THEN "text"
    ELSE ""

\* LiteVectorStore: row[4] or "". The chunk_text is in the row itself; a csv
\* state other than "ok" stands for a NULL or empty chunk_text.
inline_text(h) == IF h.csv = "ok" THEN "text" ELSE ""

Metadata(h) == [paper |-> h.paper, date |-> h.date, time |-> h.time]

\* The loop over valid_indices of both stores' search: a neighbour with a row
\* appends to the four lists, one without is passed over.
RECURSIVE search_rows(_, _, _)
search_rows(valid_indices, hits, lite) ==
    IF valid_indices = <<>> THEN NoResults
    ELSE LET v == Head(valid_indices)
             h == hits[v.idx + 1]
             rest == search_rows(Tail(valid_indices), hits, lite)
         IN IF row_found(h)
            THEN [ids |-> <<v.idx>> \o rest.ids,
                  documents |-> <<IF lite THEN inline_text(h) ELSE lookup_text(h)>>
                                    \o rest.documents,
                  metadatas |-> <<Metadata(h)>> \o rest.metadatas,
                  distances |-> <<100 - v.score>> \o rest.distances]
            ELSE rest

\* FAISSVectorStore.search
FAISSVectorStore_search(in, n_results) ==
    LET valid_indices == SelectSeq(index_search(in.hits, n_results), IsValidIndex)
    IN IF valid_indices # <<>> /\ in.db_there
       THEN search_rows(valid_indices, in.hits, FALSE)
       ELSE NoResults

\* LiteVectorStore.search raises when it has rows to look up and the database
\* file is gone: sqlite3.connect creates an empty file and the SELECT fails.
LiteSearchRaises(in, n_results) ==
    SelectSeq(index_search(in.hits, n_results), IsValidIndex) # <<>> /\ ~in.db_there

\* LiteVectorStore.search
LiteVectorStore_search(in, n_results) ==
    LET valid_indices == SelectSeq(index_search(in.hits, n_results), IsValidIndex)
    IN IF valid_indices # <<>>
       THEN search_rows(valid_indices, in.hits, TRUE)
       ELSE NoResults

\* VectorStore.search (ChromaDB): the collection holds documents and
\* metadata with the vectors and returns cosine distances.
VectorStore_search(in, n_results) ==
    LET k == Min(n_results, Len(in.hits))
    IN [ids |-> [i \in 1..k |-> in.hits[i].idx],
        documents |-> [i \in 1..k |-> inline_text(in.hits[i])],
        metadatas |-> [i \in 1..k |-> Metadata(in.hits[i])],
        distances |-> [i \in 1..k |-> 100 - in.hits[i].score]]

Max0(x) == IF x > 0 THEN x ELSE 0

\* A percentage that is not cut off at zero.
Relevance_unclamped(dist) == 100 - dist

\* similarity = max(0, 1 - dist) * 100, shown with no decimals
Relevance(dist) == Max0(100 - dist)

\* _format_sources of both RAGChatbot classes and the loop of the lite
\* branch: one source per result, its date cut at "T".
format_sources(results) ==
    [i \in 1..Len(results.documents) |->
        [snippet |-> results.documents[i],
         date |-> results.metadatas[i].date,
         time |-> FALSE,
         paper |-> results.metadatas[i].paper,
         relevance |-> Relevance(results.distances[i])]]

\* set(s["paper"] for s in sources if s["paper"])
PapersOf(sources) == {sources[i].paper : i \in {j \in 1..Len(sources) : sources[j].paper # 0}}

\* [s["date"] for s in sources if s["date"]]
DatesOf(sources) == {sources[i].date : i \in {j \in 1..Len(sources) : sources[j].date # 0}}

NumDated(sources) == Cardinality({j \in 1..Len(sources) : sources[j].date # 0})

SetMin(S) == CHOOSE x \in S : \A y \in S : x <= y
SetMax(S) == CHOOSE x \in S : \A y \in S : x >= y

RECURSIVE SortedSeq(_)
SortedSeq(S) == IF S = {} THEN <<>> ELSE <<SetMin(S)>> \o SortedSeq(S \ {SetMin(S)})

\* sorted(papers)[:3]
paper_list(papers) == SubSeq(SortedSeq(papers), 1, Min(PAPERS_SHOWN, Cardinality(papers)))

\* An answer that never mentions how many papers were left out.
more_papers_none(papers) == 0

\* f" and {len(papers) - 3} more" when len(papers) > 3
more_papers(papers) ==
    IF Cardinality(papers) > PAPERS_SHOWN THEN Cardinality(papers) - PAPERS_SHOWN ELSE 0

\* An answer that never reports a date range.
date_range_none(sources) == <<>>

\* The "Date range: lo to hi." part, only for more than one date with
\* distinct ends.
date_range(sources) ==
    IF NumDated(sources) > 1 /\ SetMin(DatesOf(sources)) # SetMax(DatesOf(sources))
    THEN <<SetMin(DatesOf(sources)), SetMax(DatesOf(sources))>>
    ELSE <<>>

\* rag_chatbot_faiss.py RAGChatbot._format_answer
format_answer(sources) ==
    IF Len(sources) = 0
    THEN [kind |-> "no_relevant", n |-> 0, papers |-> <<>>, more |-> 0, dates |-> <<>>]
    ELSE [kind |-> "found", n |-> Len(sources),
          papers |-> paper_list(PapersOf(sources)),
          more |-> more_papers(PapersOf(sources)),
          dates |-> IF DatesOf(sources) # {} THEN date_range(sources) ELSE <<>>]

\* rag_chatbot.py RAGChatbot._format_answer: as above, with "Date: d." when
\* there is no range to report.
chroma_format_answer(sources) ==
    IF Len(sources) = 0
    THEN [kind |-> "no_relevant", n |-> 0, papers |-> <<>>, more |-> 0, dates |-> <<>>]
    ELSE [kind |-> "found", n |-> Len(sources),
          papers |-> paper_list(PapersOf(sources)),
          more |-> more_papers(PapersOf(sources)),
          dates |-> IF DatesOf(sources) = {} THEN <<>>
                    ELSE IF date_range(sources) # <<>> THEN date_range(sources)
                    ELSE <<SetMin(DatesOf(sources))>>]

\* app.py, "Build default answer": the count and sorted(papers)[:3].
lite_answer(sources) ==
    [kind |-> "found", n |-> Len(sources),
     papers |-> paper_list(PapersOf(sources)),
     more |-> 0,
     dates |-> <<>>]

Fixed(kind) == [answer |-> [kind |-> kind, n |-> 0, papers |-> <<>>, more |-> 0, dates |-> <<>>],
                sources |-> <<>>]

\* A test that never finds the result empty.
IsEmptyResult_never(results) == FALSE

\* 'if not results["ids"]'
IsEmptyResult(results) == results.ids = <<>>

\* rag_chatbot_faiss.py RAGChatbot.query(user_question, top_k=5)
RAGChatbot_query ==
    /\ q_pc = "idle"
    /\ q_variant' = "faiss"
    /\ q_pc' = "done"
    /\ IF IsBlankQuery(q_in.text)
       THEN /\ q_out' = Fixed("please_enter")
            /\ UNCHANGED <<q_results, encode_calls, search_calls>>
       ELSE LET results == FAISSVectorStore_search(q_in, TOP_K) IN
            /\ encode_calls' = encode_calls + 1
            /\ search_calls' = search_calls + 1
            /\ q_results' = results
            /\ q_out' = IF IsEmptyResult(results) THEN Fixed("no_relevant")
                        ELSE [answer |-> format_answer(format_sources(results)),
                              sources |-> format_sources(results)]
    /\ UNCHANGED q_in

\* A ChromaDB collection holds a document for every vector, and its
\* distances are cosine distances.
ChromaInput == q_in.kind = "IndexFlatIP" /\ q_in.db_there
               /\ \A i \in 1..Len(q_in.hits) : q_in.hits[i].row

\* rag_chatbot.py RAGChatbot.query(user_question, top_k=5)
ChromaRAGChatbot_query ==
    /\ q_pc = "idle"
    /\ ChromaInput
    /\ q_variant' = "chroma"
    /\ q_pc' = "done"
    /\ IF IsBlankQuery(q_in.text)
       THEN /\ q_out' = Fixed("please_enter")
            /\ UNCHANGED <<q_results, encode_calls, search_calls>>
       ELSE LET results == VectorStore_search(q_in, TOP_K) IN
            /\ encode_calls' = encode_calls + 1
            /\ search_calls' = search_calls + 1
            /\ q_results' = results
            /\ q_out' = IF IsEmptyResult(results) THEN Fixed("no_relevant_try_other")
                        ELSE [answer |-> chroma_format_answer(format_sources(results)),
                              sources |-> format_sources(results)]
    /\ UNCHANGED q_in

\* The lite branch of get_chatbot_response up to the LLM step, on a message
\* the chat route let through (stripped and not empty). build_lite.py writes
\* an IndexFlatIP.
lite_query ==
    /\ q_pc = "idle"
    /\ q_in.kind = "IndexFlatIP"
    /\ strip(q_in.text) # <<>>
    /\ q_variant' = "lite"
    /\ q_pc' = "done"
    /\ encode_calls' = encode_calls + 1
    /\ search_calls' = search_calls + 1
    /\ IF LiteSearchRaises(q_in, TOP_K)
       THEN /\ q_out' = Fixed("search_error")
            /\ UNCHANGED q_results
       ELSE LET results == LiteVectorStore_search(q_in, TOP_K) IN
            /\ q_results' = results
            /\ q_out' = IF IsEmptyResult(results) THEN Fixed("no_relevant")
                        ELSE [answer |-> lite_answer(format_sources(results)),
                              sources |-> format_sources(results)]
    /\ UNCHANGED q_in

-----------------------------------------------------------------------------
(* Concurrent searches: the threads of the server each run                   *)
(* FAISSVectorStore.search on the one store, a statement at a time.          *)

Threads == 1..MaxThreads

\* The stores searched: up to MaxHits neighbours, some without a row.
ConcStores ==
    UNION {
        { [i \in 1..n |-> Hit(i - 1, 100 - 10 * i, rws[i], "ok", 1, 1, FALSE)] :
            rws \in [1..n -> BOOLEAN] }
        : n \in 1..MaxHits }

\* A call frame that every thread shares.
CallFrame_shared(t) == 1

\* ids, documents, metadatas and distances are locals of search: each call
\* has its own.
CallFrame(t) == t

ConcInit ==
    /\ c_hits \in ConcStores
    /\ c_hits0 = c_hits
    /\ c_journal = "wal"
    /\ t_pc = [t \in Threads |-> "idle"]
    /\ t_n = [t \in Threads |-> 1]
    /\ t_valid = [t \in Threads |-> <<>>]
    /\ c_buf = [t \in Threads |-> NoResults]
    /\ t_ret = [t \in Threads |-> NoResults]

ConcIdle ==
    /\ c_hits = <<>>
    /\ c_hits0 = <<>>
    /\ c_journal = "wal"
    /\ t_pc = [t \in Threads |-> "idle"]
    /\ t_n = [t \in Threads |-> 1]
    /\ t_valid = [t \in Threads |-> <<>>]
    /\ c_buf = [t \in Threads |-> NoResults]
    /\ t_ret = [t \in Threads |-> NoResults]

\* search up to the loop: index.search, four fresh lists, valid_indices, and
\* _get_db() when there is something to look up (the PRAGMA leaves a
\* database that the builder already put in WAL mode as it is).
search_begin(t) ==
    /\ t_pc[t] \in {"idle", "done"}
    /\ \E n \in {1, TOP_K} :
        /\ t_n' = [t_n EXCEPT ![t] = n]
        /\ t_valid' = [t_valid EXCEPT ![t] = SelectSeq(index_search(c_hits, n), IsValidIndex)]
        /\ c_journal' = IF SelectSeq(index_search(c_hits, n), IsValidIndex) # <<>>
                        THEN "wal" ELSE c_journal
    /\ c_buf' = [c_buf EXCEPT ![CallFrame(t)] = NoResults]
    /\ t_pc' = [t_pc EXCEPT ![t] = "rows"]
    /\ UNCHANGED <<c_hits, c_hits0, t_ret>>

\* One iteration of the loop over valid_indices.
search_row(t) ==
    /\ t_pc[t] = "rows"
    /\ t_valid[t] # <<>>
    /\ LET v == Head(t_valid[t])
           h == c_hits[v.idx + 1]
           b == c_buf[CallFrame(t)]
       IN c_buf' = IF row_found(h)
                   THEN [c_buf EXCEPT ![CallFrame(t)] =
                            [ids |-> Append(b.ids, v.idx),
                             documents |-> Append(b.documents, lookup_text(h)),
                             metadatas |-> Append(b.metadatas, Metadata(h)),
                             distances |-> Append(b.distances, 100 - v.score)]]
                   ELSE c_buf
    /\ t_valid' = [t_valid EXCEPT ![t] = Tail(t_valid[t])]
    /\ UNCHANGED <<c_hits, c_hits0, c_journal, t_pc, t_n, t_ret>>

\* conn.close() and the return of the four lists.
search_return(t) ==
    /\ t_pc[t] = "rows"
    /\ t_valid[t] = <<>>
    /\ t_ret' = [t_ret EXCEPT ![t] = c_buf[CallFrame(t)]]
    /\ t_pc' = [t_pc EXCEPT ![t] = "done"]
    /\ UNCHANGED <<c_hits, c_hits0, c_journal, t_n, t_valid, c_buf>>

-----------------------------------------------------------------------------
(* Phase 1 of _build_compressed: the training sample and the cluster count *)

\* Vector counts of one file: none loaded, one, the two sides of
\* VECTORS_PER_CLUSTER, half of training_target and one past it.
TrainSizes == {0, 1, VECTORS_PER_CLUSTER - 1, VECTORS_PER_CLUSTER,
               training_target \div 2, training_target + 1}

RECURSIVE SeqSum(_)
\* sum(e.shape[0] for e in training_data)
SeqSum(s) == IF s = <<>> THEN 0 ELSE Head(s) + SeqSum(Tail(s))

TrainInit ==
    /\ tr_files \in UNION {[1..n -> TrainSizes] : n \in 0..MaxTrainFiles}
    /\ tr_pc = "load"
    /\ tr_i = 0
    /\ training_data = <<>>
    /\ training_vectors = -1
    /\ tr_n_clusters = -1

TrainIdle ==
    /\ tr_files = <<>>
    /\ tr_pc = "trained"
    /\ tr_i = 0
    /\ training_data = <<>>
    /\ training_vectors = -1
    /\ tr_n_clusters = -1

\* The loop has read files[:30] or was left by its break.
TrainLoopOver ==
    \/ tr_i >= Min(TRAIN_FILES, Len(tr_files))
    \/ SeqSum(training_data) >= training_target

\* One iteration of the loop over files[:30]: a file that loads is
\* appended; the break is taken once training_target vectors are gathered.
train_load_step ==
    /\ tr_pc = "load"
    /\ ~TrainLoopOver
    /\ tr_i' = tr_i + 1
    /\ training_data' = IF tr_files[tr_i + 1] = 0 THEN training_data
                        ELSE Append(training_data, tr_files[tr_i + 1])
    /\ UNCHANGED <<tr_files, tr_pc, training_vectors, tr_n_clusters>>

\* After the loop: np.vstack (ValueError on an empty list), the subsample,
\* n_clusters, the IndexIVFPQ and its training (the library's, may raise).
train_index ==
    /\ tr_pc = "load"
    /\ TrainLoopOver
    /\ IF training_data = <<>>
       THEN /\ tr_pc' = "failed"
            /\ UNCHANGED <<training_vectors, tr_n_clusters>>
       ELSE /\ training_vectors' = TrainingSample(SeqSum(training_data))
            /\ tr_n_clusters' = NClusters(TrainingSample(SeqSum(training_data)))
            /\ tr_pc' \in {"trained", "failed"}
    /\ UNCHANGED <<tr_files, tr_i, training_data>>

-----------------------------------------------------------------------------
(* build_lite.py *)

LiteKinds == {"small", "big", "nocsv", "mismatch", "unreadable", "badrow"}

\* One (.npy, .csv) pair of the sampled corpus. load: np.load / read_csv
\* succeed; bad_at: the number of rows executemany inserts before it raises
\* (a full disk, a value it cannot bind; -1: it inserts them all).
LiteDesc(k) ==
    CASE k = "small"      -> [csv |-> TRUE,  load |-> TRUE,  n_vec |-> 2, n_rows |-> 2, bad_at |-> -1]
      [] k = "big"        -> [csv |-> TRUE,  load |-> TRUE,  n_vec |-> TARGET_DOCS + 5000,
                              n_rows |-> TARGET_DOCS + 5000, bad_at |-> -1]
      [] k = "nocsv"      -> [csv |-> FALSE, load |-> TRUE,  n_vec |-> 1, n_rows |-> 0, bad_at |-> -1]
      [] k = "mismatch"   -> [csv |-> TRUE,  load |-> TRUE,  n_vec |-> 2, n_rows |-> 1, bad_at |-> -1]
      [] k = "unreadable" -> [csv |-> TRUE,  load |-> FALSE, n_vec |-> 0, n_rows |-> 0, bad_at |-> -1]
      [] k = "badrow"     -> [csv |-> TRUE,  load |-> TRUE,  n_vec |-> 3, n_rows |-> 3, bad_at |-> 1]

LiteFile(i) == LiteDesc(bl_pattern[(i % 3) + 1])

\* Listing sizes: the small ones, one past SAMPLE_FILES (step 1, truncated)
\* and one with step 2 that is truncated as well.
LiteCounts == (0..MaxLiteFiles) \cup {SAMPLE_FILES + 1, 2 * SAMPLE_FILES + 5}

\* step = max(1, total // SAMPLE_FILES)
LiteStep(total) == IF total \div SAMPLE_FILES < 1 THEN 1 ELSE total \div SAMPLE_FILES

\* len([all_files[i] for i in range(0, total, step)][:SAMPLE_FILES])
NumSelected(total) ==
    Min(SAMPLE_FILES, (total + LiteStep(total) - 1) \div LiteStep(total))

\* the position in all_files of selected_files[j]
Selected(j) == j * LiteStep(bl_total)

\* Mutant: every file may contribute the whole target.
DocsPerFile_whole(n_selected) == TARGET_DOCS

\* docs_per_file = TARGET_DOCS // len(selected_files)
DocsPerFile(n_selected) == TARGET_DOCS \div n_selected

RECURSIVE SegCount(_)
\* number of vectors (or rows) in a list of segments
SegCount(segs) == IF segs = <<>> THEN 0 ELSE Head(segs).n + SegCount(Tail(segs))

LiteInit ==
    /\ bl_total \in LiteCounts
    /\ bl_pattern \in LiteKinds \X LiteKinds \X LiteKinds
    /\ bl_pc = "start"
    /\ bl_file_idx = 0
    /\ bl_global_idx = 0
    /\ bl_embeddings = <<>>
    /\ bl_txn = <<>>
    /\ bl_db = <<>>
    /\ bl_index = <<>>

LiteIdle ==
    /\ bl_total = 0
    /\ bl_pattern = <<"small", "small", "small">>
    /\ bl_pc = "failed"
    /\ bl_file_idx = 0
    /\ bl_global_idx = 0
    /\ bl_embeddings = <<>>
    /\ bl_txn = <<>>
    /\ bl_db = <<>>
    /\ bl_index = <<>>

\* The script up to the loop: the old files are removed, the files are
\* selected, docs_per_file is computed (ZeroDivisionError on an empty
\* listing) and the table is created.
lite_setup ==
    /\ bl_pc = "start"
    /\ bl_pc' = IF NumSelected(bl_total) = 0 THEN "failed" ELSE "loop"
    /\ UNCHANGED <<bl_total, bl_pattern, bl_file_idx, bl_global_idx, bl_embeddings,
                   bl_txn, bl_db, bl_index>>

\* One iteration of the loop over selected_files. The sample is appended to
\* all_embeddings and global_idx is advanced over the whole batch before
\* executemany runs; what executemany inserted before raising stays in the
\* open transaction.
lite_file_step ==
    /\ bl_pc = "loop"
    /\ bl_file_idx < NumSelected(bl_total)
    /\ bl_file_idx' = bl_file_idx + 1
    /\ LET i == Selected(bl_file_idx)
           f == LiteFile(i)
           n == Min(DocsPerFile(NumSelected(bl_total)), f.n_rows)
       IN IF ~f.csv \/ ~f.load \/ f.n_rows = 0 \/ f.n_rows # f.n_vec
          THEN UNCHANGED <<bl_global_idx, bl_embeddings, bl_txn, bl_db>>
          ELSE /\ bl_embeddings' = Append(bl_embeddings, [file |-> i, n |-> n])
               /\ bl_global_idx' = bl_global_idx + n
               /\ IF f.bad_at >= 0 /\ f.bad_at < n
                  THEN /\ bl_txn' = Append(bl_txn, [file |-> i, idx |-> bl_global_idx,
                                                   off |-> 0, n |-> f.bad_at])
                       /\ bl_db' = bl_db
                  ELSE /\ bl_db' = bl_db \o Append(bl_txn, [file |-> i, idx |-> bl_global_idx,
                                                          off |-> 0, n |-> n])
                       /\ bl_txn' = <<>>
    /\ UNCHANGED <<bl_total, bl_pattern, bl_pc, bl_index>>

\* After the loop: conn.close() (pending rows are rolled back), exit when
\* nothing was loaded, else the flat index of all samples is written.
lite_finish ==
    /\ bl_pc = "loop"
    /\ bl_file_idx = NumSelected(bl_total)
    /\ bl_txn' = <<>>
    /\ IF bl_embeddings = <<>>
       THEN bl_pc' = "failed" /\ bl_index' = <<>>
       ELSE bl_pc' = "done" /\ bl_index' = bl_embeddings
    /\ UNCHANGED <<bl_total, bl_pattern, bl_file_idx, bl_global_idx, bl_embeddings, bl_db>>

-----------------------------------------------------------------------------
(* Lazy text resolution: row_num at ingestion, _lookup_text at query time *)

\* Raw chunk_text fields of a chunk CSV; "NA" is one of the strings pandas
\* reads as a missing value.
RawTexts == {"a", "b", "NA"}

NaN == "<NaN>"

\* read_csv(dtype=str): a field holding one of pandas' NA strings is NaN
ParseField(raw) == IF raw = "NA" THEN NaN ELSE raw

\* str(v) of a parsed field
PyStr(v) == IF v = NaN THEN "nan" ELSE v

\* The lines of the CSV file: line 0 is the header, line i + 1 the data row i.
CsvLines(data) == <<"header">> \o data

RECURSIVE Kept(_, _, _)
\* What read_csv parses under skiprows: the lines whose 0-based number is
\* not in skip, in file order. n is the number of the first line of lines.
Kept(lines, skip, n) ==
    IF lines = <<>> THEN <<>>
    ELSE IF n \in skip THEN Kept(Tail(lines), skip, n + 1)
    ELSE <<Head(lines)>> \o Kept(Tail(lines), skip, n + 1)

\* _load_file_embeddings_and_meta: "row_num": i for i, row in df.iterrows()
RowNums(data) == [i \in 1..Len(data) |-> i - 1]

\* Mutant: one line too few is skipped.
lookup_text_at_short(data, row_num) ==
    LET kept == Kept(CsvLines(data), 1..(row_num - 1), 0)
    IN IF Len(kept) < 2 THEN "" ELSE PyStr(ParseField(kept[2]))

\* _lookup_text on an existing CSV with a chunk_text column:
\* read_csv(skiprows=range(1, row_num + 1), nrows=1), then
\* str(df["chunk_text"].iloc[0] or ""), "" for an empty frame.
lookup_text_at(data, row_num) ==
    LET kept == Kept(CsvLines(data), 1..row_num, 0)
    IN IF Len(kept) < 2 THEN "" ELSE PyStr(ParseField(kept[2]))

LookupInit ==
    /\ lk_csv \in UNION {[1..n -> RawTexts] : n \in 0..MaxCsvRows}
    /\ lk_rows = <<>>
    /\ lk_pc = "start"
    /\ lk_found = <<>>

LookupIdle ==
    /\ lk_csv = <<>>
    /\ lk_rows = <<>>
    /\ lk_pc = "idle"
    /\ lk_found = <<>>

\* The file is ingested: one metadata row per CSV row.
lk_ingest ==
    /\ lk_pc = "start"
    /\ lk_csv # <<>>
    /\ lk_rows' = RowNums(lk_csv)
    /\ lk_found' = [i \in 1..Len(lk_csv) |-> "unset"]
    /\ lk_pc' = "ingested"
    /\ UNCHANGED lk_csv

\* search resolves the text of one ingested chunk.
lk_lookup ==
    /\ lk_pc = "ingested"
    /\ \E k \in 1..Len(lk_rows) :
         lk_found' = [lk_found EXCEPT ![k] = lookup_text_at(lk_csv, lk_rows[k])]
    /\ UNCHANGED <<lk_csv, lk_rows, lk_pc>>

-----------------------------------------------------------------------------
(* build_embeddings_full.py *)

EmbKinds == {"c1", "c2", "nocol", "unreadable"}

\* One chunk CSV of base_dir: whether read_csv succeeds, whether it has a
\* chunk_text column, and its number of chunks.
EmbDesc(k) ==
    CASE k = "c1"         -> [reads |-> TRUE,  has_text |-> TRUE,  n |-> 1]
      [] k = "c2"         -> [reads |-> TRUE,  has_text |-> TRUE,  n |-> 2]
      [] k = "nocol"      -> [reads |-> TRUE,  has_text |-> FALSE, n |-> 1]
      [] k = "unreadable" -> [reads |-> FALSE, has_text |-> TRUE,  n |-> 1]

RECURSIVE Todo_all(_, _, _)
\* Mutant: the files with a saved .npy are not filtered out.
Todo_all(n, done, i) ==
    IF i > n THEN <<>> ELSE <<i>> \o Todo_all(n, done, i + 1)

RECURSIVE Todo(_, _, _)
\* files = [f for f in files if f not in processed_files], in sorted order;
\* n is the number of CSVs, done the set with a saved .npy, i the next file.
Todo(n, done, i) ==
    IF i > n THEN <<>>
    ELSE IF i \in done THEN Todo(n, done, i + 1)
    ELSE <<i>> \o Todo(n, done, i + 1)

\* Mutant: the batch size is halved without a floor.
NextBatch_nofloor(b) == b \div 2

\* local_batch = max(4, local_batch // 2)
NextBatch(b) == IF b \div 2 < MIN_BATCH THEN MIN_BATCH ELSE b \div 2

EmbInit ==
    /\ emb_csvs \in UNION {[1..n -> EmbKinds] : n \in 0..MaxEmbFiles}
    /\ npy = {}
    /\ e_pc = "down"
    /\ processed_files = {}
    /\ e_files = <<>>
    /\ e_i = 1
    /\ e_attempt = 0
    /\ local_batch = EMB_BATCH_SIZE
    /\ e_last = "none"
    /\ e_index = <<>>
    /\ total_vectors = 0
    /\ batch_count = 0
    /\ index_partial = <<>>
    /\ full_written = FALSE
    /\ index_full = <<>>

EmbIdle ==
    /\ emb_csvs = <<>>
    /\ npy = {}
    /\ e_pc = "idle"
    /\ processed_files = {}
    /\ e_files = <<>>
    /\ e_i = 1
    /\ e_attempt = 0
    /\ local_batch = EMB_BATCH_SIZE
    /\ e_last = "none"
    /\ e_index = <<>>
    /\ total_vectors = 0
    /\ batch_count = 0
    /\ index_partial = <<>>
    /\ full_written = FALSE
    /\ index_full = <<>>

EmbDisk == <<emb_csvs, index_partial, full_written, index_full>>

\* The script starts: a fresh IndexFlatL2, the CSVs listed and sorted, those
\* with a saved .npy filtered out, the counters at zero.
emb_start ==
    /\ e_pc \in {"down", "done"}
    /\ processed_files' = npy
    /\ e_files' = Todo(Len(emb_csvs), npy, 1)
    /\ e_index' = <<>>
    /\ e_i' = 1
    /\ e_attempt' = 0
    /\ local_batch' = EMB_BATCH_SIZE
    /\ e_last' = "none"
    /\ total_vectors' = 0
    /\ batch_count' = 0
    /\ e_pc' = "loop"
    /\ UNCHANGED <<EmbDisk, npy>>

\* Top of one iteration: the CSV is read; a file that cannot be read or has
\* no chunk_text column is passed over, else the retry loop is entered with
\* success = False and local_batch = BATCH_SIZE; a file passed over leaves
\* local_batch as the last file left it.
emb_read ==
    /\ e_pc = "loop"
    /\ e_i <= Len(e_files)
    /\ LET f == EmbDesc(emb_csvs[e_files[e_i]])
       IN IF ~f.reads \/ ~f.has_text
          THEN e_pc' = "loop" /\ e_i' = e_i + 1 /\ local_batch' = local_batch
          ELSE e_pc' = "encode" /\ e_i' = e_i /\ local_batch' = EMB_BATCH_SIZE
    /\ e_attempt' = 0
    /\ e_last' = "none"
    /\ UNCHANGED <<EmbDisk, npy, processed_files, e_files, e_index, total_vectors,
                   batch_count>>

\* One attempt of the retry loop "for attempt in range(3)": model.encode
\* returns, raises a CUDA out-of-memory RuntimeError, or raises another
\* RuntimeError. Without success the file is passed over.
emb_encode ==
    /\ e_pc = "encode"
    /\ e_attempt < MAX_ATTEMPTS
    /\ \E outcome \in {"ok", "oom", "rt"} :
        /\ e_last' = outcome
        /\ e_attempt' = e_attempt + 1
        /\ local_batch' = IF outcome = "oom" THEN NextBatch(local_batch) ELSE local_batch
        /\ IF outcome = "ok"
           THEN e_pc' = "save" /\ e_i' = e_i
           ELSE IF outcome = "rt" \/ e_attempt + 1 = MAX_ATTEMPTS
           THEN e_pc' = "loop" /\ e_i' = e_i + 1
           ELSE e_pc' = "encode" /\ e_i' = e_i
    /\ UNCHANGED <<EmbDisk, npy, processed_files, e_files, e_index, total_vectors,
                   batch_count>>

\* np.save, index.add, the counters and the autosave. np.save or index.add
\* may raise; the except clause passes on to the next file.
emb_save ==
    /\ e_pc = "save"
    /\ LET i == e_files[e_i]
           n == EmbDesc(emb_csvs[i]).n
       IN \E outcome \in {"ok", "save_raises", "add_raises"} :
            /\ npy' = IF outcome = "save_raises" THEN npy ELSE npy \cup {i}
            /\ IF outcome = "ok"
               THEN /\ e_index' = Append(e_index, [file |-> i, n |-> n])
                    /\ total_vectors' = total_vectors + n
                    /\ batch_count' = batch_count + 1
                    /\ index_partial' = IF (batch_count + 1) % AUTOSAVE_INTERVAL = 0
                                        THEN Append(e_index, [file |-> i, n |-> n])
                                        ELSE index_partial
               ELSE UNCHANGED <<e_index, total_vectors, batch_count, index_partial>>
    /\ e_pc' = "loop"
    /\ e_i' = e_i + 1
    /\ UNCHANGED <<emb_csvs, full_written, index_full, processed_files, e_files,
                   e_attempt, local_batch, e_last>>

\* After the loop: faiss.write_index(index, index_path_full).
emb_finish ==
    /\ e_pc = "loop"
    /\ e_i > Len(e_files)
    /\ index_full' = e_index
    /\ full_written' = TRUE
    /\ e_pc' = "done"
    /\ UNCHANGED <<emb_csvs, index_partial, npy, processed_files, e_files, e_i, e_attempt,
                   local_batch, e_last, e_index, total_vectors, batch_count>>

\* The script is interrupted (or an exception other than the handled ones
\* ends it): the index in memory is lost, the saved files stay.
emb_interrupt ==
    /\ e_pc \in {"loop", "encode", "save"}
    /\ e_pc' = "down"
    /\ e_index' = <<>>
    /\ e_files' = <<>>
    /\ processed_files' = {}
    /\ e_i' = 1
    /\ e_attempt' = 0
    /\ local_batch' = EMB_BATCH_SIZE
    /\ e_last' = "none"
    /\ total_vectors' = 0
    /\ batch_count' = 0
    /\ UNCHANGED <<EmbDisk, npy>>

-----------------------------------------------------------------------------
(* chunking.py: chunk_text *)

Alphabet == <<"a", "b", "c", "d", "e", "f", "g">>

\* A text of n letters, each position recognisable.
Plain(n) == [i \in 1..n |-> Alphabet[((i - 1) % 7) + 1]]

Str(s) == [is_str |-> TRUE, s |-> s]
NotAString == [is_str |-> FALSE, s |-> <<>>]

\* The texts chunk_text is called with: plain texts of every length, blank
\* texts, a text with blanks around a letter, spellings of "nan", a text that
\* starts with "nan", and a value that is not a string.
ChunkTexts ==
    {Str(Plain(n)) : n \in 0..MaxTextLen}
    \cup {Str(<<" ">>), Str(<<" ", " ">>), Str(<<" ", "a", " ">>),
          Str(<<"n", "a", "n">>), Str(<<"N", "a", "N">>), Str(<<"n", "a", "n", "a">>),
          NotAString}

\* str.lower() on the letters in use
PyLower(s) == [i \in 1..Len(s) |-> IF s[i] = "N" THEN "n" ELSE s[i]]

\* an index of a slice brought into 0..n
SliceIndex(i, n) ==
    IF i < 0 THEN (IF i + n < 0 THEN 0 ELSE i + n) ELSE (IF i > n THEN n ELSE i)

\* s[a:b]
PySlice(s, a, b) ==
    LET x == SliceIndex(a, Len(s))
        y == SliceIndex(b, Len(s))
    IN IF x >= y THEN <<>> ELSE SubSeq(s, x + 1, y)

\* not isinstance(text, str) or not text.strip() or text.lower() == "nan"
Unchunkable(t) ==
    \/ ~t.is_str
    \/ strip(t.s) = <<>>
    \/ PyLower(t.s) = <<"n", "a", "n">>

\* Mutant: the next chunk starts where the last one ended.
NextStart_nooverlap(start, chunk_size, overlap) == start + chunk_size

\* start += chunk_size - overlap
NextStart(start, chunk_size, overlap) == start + chunk_size - overlap

ChunkInit ==
    /\ ct_text \in ChunkTexts
    /\ ct_size \in 1..MaxChunkSize
    /\ ct_overlap \in 0..MaxChunkSize
    /\ ct_pc = "call"
    /\ ct_start = 0
    /\ ct_chunks = <<>>

ChunkIdle ==
    /\ ct_text = NotAString
    /\ ct_size = 1
    /\ ct_overlap = 0
    /\ ct_pc = "idle"
    /\ ct_start = 0
    /\ ct_chunks = <<>>

\* chunk_text up to its loop: the early return of [] or chunks = [], start = 0
chunk_text_enter ==
    /\ ct_pc = "call"
    /\ ct_pc' = IF Unchunkable(ct_text) THEN "done" ELSE "loop"
    /\ ct_start' = 0
    /\ ct_chunks' = <<>>
    /\ UNCHANGED <<ct_text, ct_size, ct_overlap>>

\* One iteration of "while start < len(text)". The model follows the loop for
\* MaxChunks iterations.
chunk_text_step ==
    /\ ct_pc = "loop"
    /\ ct_start < Len(ct_text.s)
    /\ Len(ct_chunks) < MaxChunks
    /\ LET end == Min(ct_start + ct_size, Len(ct_text.s))
       IN ct_chunks' = Append(ct_chunks, PySlice(ct_text.s, ct_start, end))
    /\ ct_start' = NextStart(ct_start, ct_size, ct_overlap)
    /\ UNCHANGED <<ct_text, ct_size, ct_overlap, ct_pc>>

\* The loop condition fails: return chunks
chunk_text_return ==
    /\ ct_pc = "loop"
    /\ ct_start >= Len(ct_text.s)
    /\ ct_pc' = "done"
    /\ UNCHANGED <<ct_text, ct_size, ct_overlap, ct_start, ct_chunks>>

-----------------------------------------------------------------------------
(* The database connection of a search *)

\* What the SELECT for one valid index does: it finds a row, finds none, or
\* raises (sqlite3.OperationalError, sqlite3.DatabaseError).
SelectOutcomes == {"row", "norow", "raises"}

\* What _get_db does: sqlite3.connect raises and there is no connection, or
\* it returns one and the PRAGMA on it raises, or both succeed.
GetDbOutcomes == {"ok", "connect_raises", "pragma_raises"}

\* "if valid_indices and self.db_path and os.path.exists(self.db_path)" in
\* FAISSVectorStore.search, "if valid_indices" in LiteVectorStore.search
OpensConnection(store, n_valid, db_there) ==
    n_valid > 0 /\ (store = "lite" \/ db_there)

\* Mutant: close() leaves the connection open.
conn_close_noop(open) == open

\* conn.close()
conn_close(open) == open - 1

ConnInit ==
    /\ cn_store \in {"faiss", "lite"}
    /\ cn_db_there \in BOOLEAN
    /\ cn_get_db \in GetDbOutcomes
    /\ cn_selects \in UNION {[1..n -> SelectOutcomes] : n \in 0..MaxValid}
    /\ cn_pc = "call"
    /\ cn_i = 1
    /\ cn_open = 0
    /\ cn_opened = 0
    /\ cn_ids = 0

ConnIdle ==
    /\ cn_store = "faiss"
    /\ cn_db_there = FALSE
    /\ cn_get_db = "ok"
    /\ cn_selects = <<>>
    /\ cn_pc = "idle"
    /\ cn_i = 1
    /\ cn_open = 0
    /\ cn_opened = 0
    /\ cn_ids = 0

\* search up to its loop: without a connection to open it returns at once;
\* else _get_db connects and sets the journal mode. When sqlite3.connect
\* raises no connection exists; when the PRAGMA raises the connection it
\* was run on is open and the exception leaves search.
conn_search_begin ==
    /\ cn_pc = "call"
    /\ IF ~OpensConnection(cn_store, Len(cn_selects), cn_db_there)
       THEN /\ cn_pc' = "returned"
            /\ UNCHANGED <<cn_open, cn_opened>>
       ELSE IF cn_get_db = "connect_raises"
       THEN /\ cn_pc' = "raised"
            /\ UNCHANGED <<cn_open, cn_opened>>
       ELSE /\ cn_open' = cn_open + 1
            /\ cn_opened' = cn_opened + 1
            /\ cn_pc' = IF cn_get_db = "ok" THEN "rows" ELSE "raised"
    /\ UNCHANGED <<cn_store, cn_db_there, cn_get_db, cn_selects, cn_i, cn_ids>>

\* One iteration of the loop over valid_indices: the SELECT, then for a row
\* the text lookup (which swallows its own errors) and the appends.
conn_search_row ==
    /\ cn_pc = "rows"
    /\ cn_i <= Len(cn_selects)
    /\ cn_i' = cn_i + 1
    /\ cn_pc' = IF cn_selects[cn_i] = "raises" THEN "raised" ELSE "rows"
    /\ cn_ids' = IF cn_selects[cn_i] = "row" THEN cn_ids + 1 ELSE cn_ids
    /\ UNCHANGED <<cn_store, cn_db_there, cn_get_db, cn_selects, cn_open, cn_opened>>

\* After the loop: conn.close() and the return of the four lists.
conn_search_return ==
    /\ cn_pc = "rows"
    /\ cn_i > Len(cn_selects)
    /\ cn_open' = conn_close(cn_open)
    /\ cn_pc' = "returned"
    /\ UNCHANGED <<cn_store, cn_db_there, cn_get_db, cn_selects, cn_i, cn_opened, cn_ids>>

ToolsIdle == TrainIdle /\ LiteIdle /\ LookupIdle /\ EmbIdle /\ ChunkIdle /\ ConnIdle

-----------------------------------------------------------------------------
(* The specifications *)

CoreIdle == StoreIdle /\ MigIdle /\ AppIdle /\ QIdle /\ ConcIdle

\* The life cycle of a FAISSVectorStore over one corpus.
Init == StoreInit /\ MigIdle /\ AppIdle /\ QIdle /\ ConcIdle /\ ToolsIdle

Next ==
    \/ StartLoad /\ UNCHANGED <<mig_vars, app_vars, q_vars, svc_vars, conc_vars, tool_vars>>
    \/ StartBuild /\ UNCHANGED <<mig_vars, app_vars, q_vars, svc_vars, conc_vars, tool_vars>>
    \/ BuildIndexScript /\ UNCHANGED <<mig_vars, app_vars, q_vars, svc_vars, conc_vars, tool_vars>>
    \/ build_flat_step /\ UNCHANGED <<mig_vars, app_vars, q_vars, svc_vars, conc_vars, tool_vars>>
    \/ build_flat_finish /\ UNCHANGED <<mig_vars, app_vars, q_vars, svc_vars, conc_vars, tool_vars>>
    \/ build_compressed_train /\ UNCHANGED <<mig_vars, app_vars, q_vars, svc_vars, conc_vars, tool_vars>>
    \/ build_compressed_step /\ UNCHANGED <<mig_vars, app_vars, q_vars, svc_vars, conc_vars, tool_vars>>
    \/ build_compressed_finish /\ UNCHANGED <<mig_vars, app_vars, q_vars, svc_vars, conc_vars, tool_vars>>
    \/ save_index /\ UNCHANGED <<mig_vars, app_vars, q_vars, svc_vars, conc_vars, tool_vars>>
    \/ Query /\ UNCHANGED <<mig_vars, app_vars, q_vars, svc_vars, conc_vars, tool_vars>>
    \/ Crash /\ UNCHANGED <<mig_vars, app_vars, q_vars, svc_vars, conc_vars, tool_vars>>
    \/ Stop /\ UNCHANGED <<mig_vars, app_vars, q_vars, svc_vars, conc_vars, tool_vars>>
    \/ DbFileLost /\ UNCHANGED <<mig_vars, app_vars, q_vars, svc_vars, conc_vars, tool_vars>>

Spec == Init /\ [][Next]_vars

\* Runs of the Chroma migration over one set of files.
InitMig == StoreIdle /\ MigInit /\ AppIdle /\ QIdle /\ ConcIdle /\ ToolsIdle

NextMig ==
    \/ run_migration_start /\ UNCHANGED <<store_vars, app_vars, q_vars, svc_vars, conc_vars, tool_vars>>
    \/ run_migration_file /\ UNCHANGED <<store_vars, app_vars, q_vars, svc_vars, conc_vars, tool_vars>>
    \/ add_batch_safe_step /\ UNCHANGED <<store_vars, app_vars, q_vars, svc_vars, conc_vars, tool_vars>>
    \/ run_migration_finish /\ UNCHANGED <<store_vars, app_vars, q_vars, svc_vars, conc_vars, tool_vars>>
    \/ MigCrash /\ UNCHANGED <<store_vars, app_vars, q_vars, svc_vars, conc_vars, tool_vars>>

SpecMig == InitMig /\ [][NextMig]_vars

\* The migration together with the VectorStore API on the same collection.
NextChroma ==
    \/ NextMig
    \/ add_documents /\ UNCHANGED <<store_vars, app_vars, q_vars, svc_vars, conc_vars, tool_vars>>
    \/ add_documents_step /\ UNCHANGED <<store_vars, app_vars, q_vars, svc_vars, conc_vars, tool_vars>>
    \/ delete_collection /\ UNCHANGED <<store_vars, app_vars, q_vars, svc_vars, conc_vars, tool_vars>>

SpecChroma == InitMig /\ [][NextChroma]_vars

\* The serving process: start-up, then requests.
InitApp == StoreIdle /\ MigIdle /\ AppInit /\ QIdle /\ ConcIdle /\ ToolsIdle

NextApp ==
    \/ app_compile /\ UNCHANGED <<store_vars, mig_vars, q_vars, conc_vars, tool_vars>>
    \/ app_store_setup /\ UNCHANGED <<store_vars, mig_vars, q_vars, conc_vars, tool_vars>>
    \/ app_llm_setup /\ UNCHANGED <<store_vars, mig_vars, q_vars, conc_vars, tool_vars>>
    \/ get_chatbot_response /\ UNCHANGED <<store_vars, mig_vars, q_vars, conc_vars, tool_vars>>
    \/ health /\ UNCHANGED <<store_vars, mig_vars, q_vars, conc_vars, tool_vars>>
    \/ stats /\ UNCHANGED <<store_vars, mig_vars, q_vars, conc_vars, tool_vars>>

SpecApp == InitApp /\ [][NextApp]_vars

\* One query through each retrieval pipeline, over every input.
InitQuery == StoreIdle /\ MigIdle /\ AppIdle /\ QInit /\ ConcIdle /\ ToolsIdle

NextQuery ==
    \/ RAGChatbot_query /\ UNCHANGED <<store_vars, mig_vars, app_vars, svc_vars, conc_vars, tool_vars>>
    \/ ChromaRAGChatbot_query /\ UNCHANGED <<store_vars, mig_vars, app_vars, svc_vars, conc_vars, tool_vars>>
    \/ lite_query /\ UNCHANGED <<store_vars, mig_vars, app_vars, svc_vars, conc_vars, tool_vars>>

SpecQuery == InitQuery /\ [][NextQuery]_vars

\* Searches of one store interleaved by the server's threads.
InitConc == StoreIdle /\ MigIdle /\ AppIdle /\ QIdle /\ ConcInit /\ ToolsIdle

NextConc ==
    \/ \E t \in Threads : search_begin(t) /\ UNCHANGED <<store_vars, mig_vars, app_vars, q_vars, svc_vars, tool_vars>>
    \/ \E t \in Threads : search_row(t) /\ UNCHANGED <<store_vars, mig_vars, app_vars, q_vars, svc_vars, tool_vars>>
    \/ \E t \in Threads : search_return(t) /\ UNCHANGED <<store_vars, mig_vars, app_vars, q_vars, svc_vars, tool_vars>>

SpecConc == InitConc /\ [][NextConc]_vars

\* Phase 1 of the compressed build over every list of file sizes.
InitTrain == CoreIdle /\ TrainInit /\ LiteIdle /\ LookupIdle /\ EmbIdle /\ ChunkIdle /\ ConnIdle

NextTrain ==
    \/ train_load_step /\ UNCHANGED <<core_vars, lite_vars, lookup_vars, emb_vars, chunk_vars, conn_vars>>
    \/ train_index /\ UNCHANGED <<core_vars, lite_vars, lookup_vars, emb_vars, chunk_vars, conn_vars>>

SpecTrain == InitTrain /\ [][NextTrain]_vars

\* One run of build_lite.py over every listing.
InitLite == CoreIdle /\ TrainIdle /\ LiteInit /\ LookupIdle /\ EmbIdle /\ ChunkIdle /\ ConnIdle

NextLite ==
    \/ lite_setup /\ UNCHANGED <<core_vars, train_vars, lookup_vars, emb_vars, chunk_vars, conn_vars>>
    \/ lite_file_step /\ UNCHANGED <<core_vars, train_vars, lookup_vars, emb_vars, chunk_vars, conn_vars>>
    \/ lite_finish /\ UNCHANGED <<core_vars, train_vars, lookup_vars, emb_vars, chunk_vars, conn_vars>>

SpecLite == InitLite /\ [][NextLite]_vars

\* Ingestion of one chunk CSV and lookups of its rows, over every CSV.
InitLookup == CoreIdle /\ TrainIdle /\ LiteIdle /\ LookupInit /\ EmbIdle /\ ChunkIdle /\ ConnIdle

NextLookup ==
    \/ lk_ingest /\ UNCHANGED <<core_vars, train_vars, lite_vars, emb_vars, chunk_vars, conn_vars>>
    \/ lk_lookup /\ UNCHANGED <<core_vars, train_vars, lite_vars, emb_vars, chunk_vars, conn_vars>>

SpecLookup == InitLookup /\ [][NextLookup]_vars

\* Runs of build_embeddings_full.py over one set of chunk CSVs.
InitEmb == CoreIdle /\ TrainIdle /\ LiteIdle /\ LookupIdle /\ EmbInit /\ ChunkIdle /\ ConnIdle

NextEmb ==
    \/ emb_start /\ UNCHANGED <<core_vars, train_vars, lite_vars, lookup_vars, chunk_vars, conn_vars>>
    \/ emb_read /\ UNCHANGED <<core_vars, train_vars, lite_vars, lookup_vars, chunk_vars, conn_vars>>
    \/ emb_encode /\ UNCHANGED <<core_vars, train_vars, lite_vars, lookup_vars, chunk_vars, conn_vars>>
    \/ emb_save /\ UNCHANGED <<core_vars, train_vars, lite_vars, lookup_vars, chunk_vars, conn_vars>>
    \/ emb_finish /\ UNCHANGED <<core_vars, train_vars, lite_vars, lookup_vars, chunk_vars, conn_vars>>
    \/ emb_interrupt /\ UNCHANGED <<core_vars, train_vars, lite_vars, lookup_vars, chunk_vars, conn_vars>>

SpecEmb == InitEmb /\ [][NextEmb]_vars

\* One call of chunk_text over every text, chunk_size and overlap.
InitChunk == CoreIdle /\ TrainIdle /\ LiteIdle /\ LookupIdle /\ EmbIdle /\ ChunkInit /\ ConnIdle

NextChunk ==
    \/ chunk_text_enter /\ UNCHANGED <<core_vars, train_vars, lite_vars, lookup_vars, emb_vars, conn_vars>>
    \/ chunk_text_step /\ UNCHANGED <<core_vars, train_vars, lite_vars, lookup_vars, emb_vars, conn_vars>>
    \/ chunk_text_return /\ UNCHANGED <<core_vars, train_vars, lite_vars, lookup_vars, emb_vars, conn_vars>>

SpecChunk == InitChunk /\ [][NextChunk]_vars

\* One search of either store, followed through its database connection.
InitConn ==
    CoreIdle /\ TrainIdle /\ LiteIdle /\ LookupIdle /\ EmbIdle /\ ChunkIdle /\ ConnInit

NextConn ==
    \/ conn_search_begin
         /\ UNCHANGED <<core_vars, train_vars, lite_vars, lookup_vars, emb_vars, chunk_vars>>
    \/ conn_search_row
         /\ UNCHANGED <<core_vars, train_vars, lite_vars, lookup_vars, emb_vars, chunk_vars>>
    \/ conn_search_return
         /\ UNCHANGED <<core_vars, train_vars, lite_vars, lookup_vars, emb_vars, chunk_vars>>

SpecConn == InitConn /\ [][NextConn]_vars

TypeOK ==
    /\ pc \in {"down", "flat", "train", "comp", "built", "ready", "failed"}
    /\ (~db_exists => db = <<>>)
    /\ (~index_file_exists => index_file = <<>>)
    /\ mig_pc \in {"idle", "loop", "adding", "done"}
    /\ app_pc \in {"source", "syntax_error", "import", "llm_setup", "serving"}

-----------------------------------------------------------------------------
(* Notions the claims are stated in *)

\* A source file is valid when its vector batch has a paired metadata CSV
\* with as many rows (at least one) as there are vectors.
IsValidFile(i) == File(i).csv /\ File(i).n_rows > 0 /\ File(i).n_rows = File(i).n_vec

RECURSIVE RowsBefore(_)
\* The total row count of the valid files before file i.
RowsBefore(i) ==
    IF i = 0 THEN 0
    ELSE RowsBefore(i - 1) + (IF IsValidFile(i - 1) THEN File(i - 1).n_rows ELSE 0)

\* The metadata rows of the connection: committed, then pending.
AllRows == db \o txn

Building == pc \in {"flat", "train", "comp", "built"}
FreshlyBuilt == pc \in {"built", "ready"} /\ ~loaded

\* C1: every metadata row's idx is unique and equals the total row count of
\* the previously ingested files plus the row's position in its own file, in
\* flat and in compressed builds, whatever files are skipped. Stated as: the
\* k-th row has idx k-1 (unique, from 0, no gaps); rows follow one another in
\* (file, position) order with every file's rows complete; and the newest row's
\* idx is the row total of all valid files before its file plus its position
\* (so no valid file before it is missing, and the same holds of every row).
C1_IdsContiguous ==
    LET rows == AllRows IN
    /\ \A k \in 1..Len(rows) : rows[k].idx = k - 1
    /\ \A k \in 2..Len(rows) :
        IF rows[k].row_num = 0
        THEN /\ rows[k - 1].source_file < rows[k].source_file
             /\ rows[k - 1].row_num = File(rows[k - 1].source_file).n_rows - 1
        ELSE /\ rows[k - 1].source_file = rows[k].source_file
             /\ rows[k - 1].row_num = rows[k].row_num - 1
    /\ Len(rows) > 0 =>
        /\ rows[1].row_num = 0
        /\ rows[Len(rows)].idx
             = RowsBefore(rows[Len(rows)].source_file) + rows[Len(rows)].row_num

\* C1's case: the population loop of a compressed build has ended, it
\* ingested more than two rows and skipped at least one file.
C1_Witness ==
    /\ pc = "comp"
    /\ file_idx = total_files
    /\ Len(AllRows) > 2
    /\ \E i \in 0..(total_files - 1) : ~IsValidFile(i)

\* C2: after a full build completes, the index's vector count equals the
\* metadata row count, position i has the row with idx = i (the only one,
\* rows being numbered by position), and that row names the (source_file,
\* row_num) the vector at position i came from.
C2_IndexMatchesMetadata ==
    FreshlyBuilt =>
        /\ txn = <<>>
        /\ Len(index) = Len(db)
        /\ \A i \in 1..Len(index) :
            /\ db[i].idx = i - 1
            /\ index[i] = <<db[i].source_file, db[i].row_num>>

\* C2's case: a compressed build over files of different sizes, some
\* skipped, has completed and was saved.
C2_Witness ==
    /\ pc = "ready"
    /\ ~loaded
    /\ index_kind = "IndexIVFPQ"
    /\ Len(index) > total_files
    /\ \E i \in 0..(total_files - 1) : ~IsValidFile(i)

\* C3 (as claimed): a build started again over the rows an interrupted build
\* committed is not stopped by them, and finishes with the vector count and
\* the metadata row count of one uninterrupted build of the same files.
C3_ResumeIdempotence ==
    resumed =>
        /\ error # "IntegrityError"
        /\ (pc \in {"built", "ready"} =>
                /\ Len(index) = RowsBefore(total_files)
                /\ Len(db) = RowsBefore(total_files))

\* C5 (as claimed): during the population phase of a compressed build the
\* persisted index covers every metadata row that has been committed, so a
\* crash keeps the files ingested before the last checkpoint.
C5_CheckpointCoversCommitted ==
    (pc = "comp" /\ ~resumed) =>
        /\ Len(db) <= Len(index_file)
        /\ \A k \in 1..Len(db) : index_file[k] = <<db[k].source_file, db[k].row_num>>

\* C6: the mode is a function of the number of files handed to the build:
\* 200 or fewer build an IndexFlatIP and never train, 201 or more train once
\* and build an IndexIVFPQ.
C6_ModeSelection ==
    /\ (Building \/ FreshlyBuilt) => use_compressed = (total_files >= 201)
    /\ (pc = "flat" \/ (FreshlyBuilt /\ index_kind = "IndexFlatIP")) =>
            (total_files <= 200 /\ train_count = 0)
    /\ (pc \in {"train", "comp"} \/ (FreshlyBuilt /\ index_kind = "IndexIVFPQ")) =>
            total_files >= 201
    /\ FreshlyBuilt =>
        /\ total_files <= 200 => (index_kind = "IndexFlatIP" /\ train_count = 0)
        /\ total_files >= 201 => (index_kind = "IndexIVFPQ" /\ train_count = 1)

\* C6's case: a corpus of exactly 201 files has been built, compressed.
C6_Witness ==
    /\ pc = "ready"
    /\ ~loaded
    /\ total_files = 201
    /\ index_kind = "IndexIVFPQ"


FilesIn(rows) == {rows[k].source_file : k \in 1..Len(rows)}
ValidFiles(n) == {i \in 0..(n - 1) : IsValidFile(i)}
SkipDue == pc \in {"flat", "comp"} /\ file_idx < total_files /\ ~IsValidFile(file_idx)

\* C7 (as claimed): files that are skipped never abort a build: no build
\* that has a valid file among its files ends for want of data.
C7_SkipNeverAborts ==
    error \in {"NoEmbeddings", "EmptyTrainingSample"} => ValidFiles(total_files) = {}

\* C7 (amended): the iteration of a file with no paired CSV or with
\* mismatched counts changes neither the index nor the metadata nor the next
\* id and moves on to the next file; a build that completes has ingested
\* exactly its valid files; and a build is aborted for want of data only when
\* no file at all is valid (flat) or none of the first 30 files, the ones
\* training reads, is valid (compressed).
C7_SkipIsolated ==
    /\ [](/\ FreshlyBuilt => FilesIn(db) = ValidFiles(total_files)
          /\ error = "NoEmbeddings" => ValidFiles(total_files) = {}
          /\ error = "EmptyTrainingSample" => ValidFiles(Min(TRAIN_FILES, total_files)) = {})
    /\ [][SkipDue =>
            \/ pc' = "down"
            \/ /\ pc' = pc
               /\ file_idx' = file_idx + 1
               /\ UNCHANGED <<index, all_embeddings, txn, db, global_idx, error>>]_vars

\* C7's case: a build that skipped a file without CSV and a file with
\* mismatched counts has completed with later valid files ingested.
C7_Witness ==
    /\ FreshlyBuilt
    /\ \E i, j, k \in 0..(total_files - 1) :
        /\ i < k /\ j < k
        /\ FileKind(i) = "nocsv"
        /\ FileKind(j) = "mismatch"
        /\ k \in FilesIn(db)

\* C8 (as claimed): no search is served from a store whose index holds a
\* number of vectors different from the number of metadata rows.
C8_ServedOnlyWhenConsistent ==
    last_query # NoQuery => last_query.ntotal = last_query.rows

\* C9 (as claimed): when the index file exists and the metadata file is
\* missing, start-up fails: the constructor never runs a build while an index
\* file is on disk (a build whose result then overwrites that file).
C9_NoRebuildOverIndex ==
    Building => ~index_file_exists

-----------------------------------------------------------------------------
(* C4: the Chroma migration *)

\* A file the migration can ingest: CSV present, a two-dimensional array, a
\* non-empty CSV with a chunk_text column, and as many rows as vectors.
MigValid(p) ==
    LET f == MigFile(p) IN
    f.csv /\ f.ndim2 /\ f.n_rows > 0 /\ f.has_text /\ f.n_rows = f.n_vec

\* The loop is at a file it skips as already ingested (when its
\* collection.get returns).
SkipsAsIngested ==
    /\ mig_pc = "loop"
    /\ mig_idx <= Len(mig_files)
    /\ MigFile(mig_idx).csv
    /\ check_already_ingested(mig_idx, TRUE)

\* C4: a re-run of the migration after an interruption skips only fully
\* ingested files: a file skipped as already ingested has every one of its
\* chunks in the collection, and when the re-run completes every valid file
\* has all its chunks there.
C4_SkipsOnlyFullyIngested ==
    /\ SkipsAsIngested => collection[mig_idx] = 0..(MigFile(mig_idx).n_rows - 1)
    /\ (mig_pc = "done" /\ mig_interrupted) =>
          \A p \in 1..Len(mig_files) : MigValid(p) => collection[p] = 0..(MigFile(p).n_rows - 1)

-----------------------------------------------------------------------------
(* C10: the LLM fallback *)

\* The last request retrieved at least one passage.
RetrievalSucceeded == last_request.retrieval >= 1

\* The LLM was unavailable, raised, timed out or returned nothing.
LLMFailed ==
    \/ llm_processor = "None"
    \/ last_request.llm \in {"empty", "raise", "timeout", "http_error", "raise_outer"}

\* C10: when retrieval succeeds and the LLM is unavailable, raises, times out
\* or returns an empty answer, the response carries the extractive answer and
\* the retrieved sources, without an llm_summary; whatever the LLM does, the
\* sources are the retrieved ones and the answer is neither empty nor an error.
C10_LLMFallback ==
    RetrievalSucceeded =>
        /\ response.sources = Sources(last_request.retrieval)
        /\ response.answer \notin {"", "Search error", "Chatbot not initialized",
                                   "No relevant articles found."}
        /\ LLMFailed =>
              /\ response.answer = FoundText[last_request.retrieval]
              /\ response.llm_summary = ""

\* C10 witness: a request with the LLM enabled and available whose backend
\* timed out, answered with the extractive answer over two sources.
C10_Witness ==
    /\ last_request.use_llm
    /\ llm_processor = "LLMProcessor"
    /\ last_request.llm = "timeout"
    /\ last_request.retrieval = 2
    /\ response.answer = FoundText[2]
    /\ Len(response.sources) = 2

-----------------------------------------------------------------------------
(* C11 .. C17: one query through the retrieval pipeline *)

\* A query text of blanks only (the empty text included).
OnlyBlanks(text) == \A i \in 1..Len(text) : text[i] = " "

Answered(variants) == q_pc = "done" /\ q_variant \in variants

\* C11: RAGChatbot.query (FAISS and Chroma variants) on an empty or
\* whitespace-only query answers "Please enter a search query." with no
\* sources, and neither the embedder nor the search is called.
C11_BlankQueryShortCircuits ==
    (Answered({"faiss", "chroma"}) /\ OnlyBlanks(q_in.text)) =>
        /\ q_out.answer.kind = "please_enter"
        /\ q_out.sources = <<>>
        /\ encode_calls = 0
        /\ search_calls = 0

\* C11 witness: a query of one blank was answered by the FAISS chatbot.
C11_Witness ==
    /\ Answered({"faiss"})
    /\ q_in.text = <<" ">>
    /\ q_out.answer.kind = "please_enter"
    /\ search_calls = 0

\* The positions (from 1) of the neighbours a search for TOP_K can return.
Returned == 1..Min(TOP_K, Len(q_in.hits))

\* C12: a query for which the index has no neighbour (every returned id is
\* -1), or none with a metadata row, is answered "No relevant articles
\* found." with no sources, on the full path and on the lite path.
C12_NoNeighbourNoError ==
    /\ (Answered({"faiss"}) /\ ~OnlyBlanks(q_in.text)
          /\ \A i \in Returned : ~(q_in.db_there /\ q_in.hits[i].row)) =>
            (q_out.answer.kind = "no_relevant" /\ q_out.sources = <<>>)
    /\ (Answered({"lite"}) /\ q_in.hits = <<>>) =>
            (q_out.answer.kind = "no_relevant" /\ q_out.sources = <<>>)
    /\ (Answered({"lite"}) /\ q_in.db_there /\ \A i \in Returned : ~q_in.hits[i].row) =>
            (q_out.answer.kind = "no_relevant" /\ q_out.sources = <<>>)

\* C12 witness: the lite path answered a query over an index with no vector.
C12_Witness ==
    /\ Answered({"lite"})
    /\ q_in.hits = <<>>
    /\ q_out.answer.kind = "no_relevant"
    /\ search_calls = 1

\* The ids, in rank order, of the returned neighbours that have a row.
RECURSIVE IdsWithRow(_)
IdsWithRow(k) ==
    IF k = 0 THEN <<>>
    ELSE IdsWithRow(k - 1) \o
         (IF q_in.db_there /\ q_in.hits[k].row THEN <<q_in.hits[k].idx>> ELSE <<>>)

\* A search of either store was made.
Searched == Answered({"faiss", "lite"}) /\ search_calls = 1

\* The lite store had neighbours to look up and its database file was gone.
LiteDbGone == Answered({"lite"}) /\ ~q_in.db_there /\ q_in.hits # <<>>

\* The search did not fail and returned exactly the neighbours with a row.
RowsOnlyReturned ==
    /\ q_out.answer.kind # "search_error"
    /\ q_results.ids = IdsWithRow(Min(TOP_K, Len(q_in.hits)))
    /\ Len(q_results.ids) <= TOP_K
    /\ Len(q_results.documents) = Len(q_results.ids)
    /\ Len(q_results.metadatas) = Len(q_results.ids)
    /\ Len(q_results.distances) = Len(q_results.ids)
    /\ \A k \in 1..Len(q_results.ids) :
          /\ q_results.metadatas[k].paper = q_in.hits[q_results.ids[k] + 1].paper
          /\ q_results.metadatas[k].date = q_in.hits[q_results.ids[k] + 1].date
          /\ q_results.distances[k] = 100 - q_in.hits[q_results.ids[k] + 1].score

\* C13 (as stated): a search of either store some of whose ids have no
\* metadata row does not fail: it returns exactly the results whose ids have
\* one, in rank order, at most n_results of them, in four lists of equal
\* length whose entries at one position belong to one id.
C13_SearchNeverFails ==
    Searched => RowsOnlyReturned

\* C13 (the part that holds): FAISSVectorStore.search never fails over
\* missing rows, a missing database file included, and LiteVectorStore.search
\* does not when its database file is there; they return exactly the results
\* whose ids have a row, in rank order, at most n_results of them, in four
\* aligned lists. With its database file gone the lite search raises and
\* returns nothing.
C13_SearchKeepsRowsOnly ==
    /\ (Searched /\ ~LiteDbGone) => RowsOnlyReturned
    /\ LiteDbGone => (q_out.answer.kind = "search_error" /\ q_results = NoResults)

\* C13 witness: of three neighbours the second has no row; the lite search
\* returned the first and the third, and so does the FAISS search on the
\* same index and rows.
C13_Witness ==
    /\ Answered({"lite"})
    /\ Len(q_in.hits) = 3
    /\ q_in.hits[1].row /\ ~q_in.hits[2].row /\ q_in.hits[3].row
    /\ q_in.db_there
    /\ q_results.ids = <<0, 2>>
    /\ FAISSVectorStore_search(q_in, TOP_K).ids = <<0, 2>>
    /\ q_out.answer.kind # "search_error"

\* C14: when the text of a returned passage cannot be resolved (CSV missing,
\* unreadable, row absent, no chunk_text column) the passage is returned with
\* its metadata and an empty text, and the other passages keep their texts.
C14_FailedTextIsEmpty ==
    (Answered({"faiss"}) /\ search_calls = 1) =>
        /\ Len(q_results.ids) = Cardinality({i \in Returned : q_in.db_there /\ q_in.hits[i].row})
        /\ Len(q_out.sources) = Len(q_results.ids)
        /\ \A k \in 1..Len(q_results.ids) :
              LET h == q_in.hits[q_results.ids[k] + 1] IN
              /\ q_results.metadatas[k].paper = h.paper
              /\ q_results.documents[k] = (IF h.csv = "ok" THEN "text" ELSE "")
              /\ q_out.sources[k].snippet = q_results.documents[k]

\* C14 witness: two passages, the first with a missing CSV, both returned.
C14_Witness ==
    /\ Answered({"faiss"})
    /\ Len(q_in.hits) = 2
    /\ q_in.hits[1].csv = "missing" /\ q_in.hits[2].csv = "ok"
    /\ q_results.documents = <<"", "text">>
    /\ Len(q_out.sources) = 2

\* The neighbours a search returned, by position in q_in.hits.
ResultHits == {q_results.ids[k] + 1 : k \in 1..Len(q_results.ids)}

\* The distinct non-empty papers, and the non-empty dates, of the results.
ResultPapers == {q_in.hits[i].paper : i \in ResultHits} \ {0}
ResultDates == {q_in.hits[i].date : i \in ResultHits} \ {0}

Found == q_pc = "done" /\ q_out.answer.kind = "found"

\* The answer states the result count and lists min(3, number of distinct
\* papers) distinct papers of the results.
CountAndPapersStated ==
    /\ q_out.answer.n = Len(q_out.sources)
    /\ q_out.answer.n = Len(q_results.ids)
    /\ Len(q_out.answer.papers) = Min(3, Cardinality(ResultPapers))
    /\ \A a \in 1..Len(q_out.answer.papers) :
          /\ q_out.answer.papers[a] \in ResultPapers
          /\ \A b \in 1..Len(q_out.answer.papers) :
                a # b => q_out.answer.papers[a] # q_out.answer.papers[b]

\* The answer gives the number of papers left out when there are more than
\* three.
OverflowStated ==
    q_out.answer.more = (IF Cardinality(ResultPapers) > 3
                         THEN Cardinality(ResultPapers) - 3 ELSE 0)

\* C15 as stated: on the full path and on the lite path the extractive answer
\* states the result count, lists at most three distinct papers, and gives
\* an overflow count when the results have more than three distinct papers.
C15_PapersAndOverflowEverywhere ==
    (Found /\ q_variant \in {"faiss", "lite"}) => (CountAndPapersStated /\ OverflowStated)

\* C15, the part that holds: both paths state the count and at most three
\* distinct papers; the full path also gives the overflow count.
C15_FullPathOverflow ==
    /\ (Found /\ q_variant \in {"faiss", "lite"}) => CountAndPapersStated
    /\ (Found /\ q_variant = "faiss") => OverflowStated

\* C15 witness: the full path answered over four distinct papers, listing
\* three and one more.
C15_Witness ==
    /\ Found
    /\ q_variant = "faiss"
    /\ Cardinality(ResultPapers) = 4
    /\ Len(q_out.answer.papers) = 3
    /\ q_out.answer.more = 1

\* The answer reports the earliest and the latest date of the results (one
\* date when they are the same).
MinMaxReported ==
    \/ q_out.answer.dates = <<SetMin(ResultDates), SetMax(ResultDates)>>
    \/ /\ SetMin(ResultDates) = SetMax(ResultDates)
       /\ q_out.answer.dates = <<SetMin(ResultDates)>>

\* C16 as stated: whenever a result carries a date, the extractive answer
\* reports the minimum and the maximum date of the results.
C16_DatesAlwaysReported ==
    (Found /\ ResultDates # {}) => MinMaxReported

\* C16, the part that holds: both RAGChatbot variants report the range when
\* the results carry two different dates, and the Chroma variant reports the
\* single date otherwise.
C16_RangeOfDistinctDates ==
    /\ (Found /\ q_variant \in {"faiss", "chroma"} /\ Cardinality(ResultDates) > 1) =>
          q_out.answer.dates = <<SetMin(ResultDates), SetMax(ResultDates)>>
    /\ (Found /\ q_variant = "chroma" /\ Cardinality(ResultDates) = 1) =>
          q_out.answer.dates = <<SetMin(ResultDates)>>

\* C16 witness: the FAISS chatbot answered over results dated 2 then 1 and
\* reported the range 1 to 2.
C16_Witness ==
    /\ Found
    /\ q_variant = "faiss"
    /\ Len(q_in.hits) = 2
    /\ q_in.hits[1].date = 2 /\ q_in.hits[2].date = 1
    /\ q_out.answer.dates = <<1, 2>>

\* Every source's relevance is max(0, 1 - distance) * 100 with distance =
\* 1 - score, lies in [0, 100], and does not increase down the list.
RelevancesInRange ==
    /\ \A k \in 1..Len(q_out.sources) :
          LET sc == q_in.hits[q_results.ids[k] + 1].score IN
          /\ q_results.distances[k] = 100 - sc
          /\ q_out.sources[k].relevance = (IF sc > 0 THEN sc ELSE 0)
          /\ q_out.sources[k].relevance \in 0..100
    /\ \A k \in 1..(Len(q_out.sources) - 1) :
          q_out.sources[k].relevance >= q_out.sources[k + 1].relevance

\* C17 as stated: for every score an index of either kind returns, the
\* relevance of every source is in [0, 100], is max(0, 1 - distance) * 100,
\* and is non-increasing down the ranked list.
C17_RelevanceInRangeAllModes ==
    Found => RelevancesInRange

\* C17, the part that holds: it is so for an exact (IndexFlatIP) index.
C17_RelevanceInRangeExact ==
    (Found /\ q_in.kind = "IndexFlatIP") => RelevancesInRange

\* C17 witness: an exact index returned scores 1.00 and -0.20, shown as 100
\* and 0.
C17_Witness ==
    /\ Found
    /\ q_variant = "faiss"
    /\ q_in.kind = "IndexFlatIP"
    /\ Len(q_out.sources) = 2
    /\ q_out.sources[1].relevance = 100
    /\ q_out.sources[2].relevance = 0
    /\ q_results.distances[2] = 120

-----------------------------------------------------------------------------
(* C18, C19: the serving process *)

\* C18: the summarizer's availability is probed once, at start-up, and the
\* outcome is kept: requests never probe again, and when the probe reported
\* unavailable, or the processor could not be constructed, no request
\* enters the summarizer whatever its use_llm flag.
C18_ProbedOnceAndCached ==
    /\ probes <= 1
    /\ app_pc = "serving" =>
          /\ probe_result # "none"
          /\ probes = (IF probe_result = "construct_failed" THEN 0 ELSE 1)
          /\ (probe_result = "available") = (llm_processor = "LLMProcessor")
    /\ probe_result \in {"unavailable", "construct_failed"} => ~llm_invoked

\* C18 witness: after a probe that reported unavailable, a request with
\* use_llm set retrieved two passages and did not enter the summarizer.
C18_Witness ==
    /\ probe_result = "unavailable"
    /\ probes = 1
    /\ last_request.use_llm
    /\ last_request.retrieval = 2
    /\ ~llm_invoked

ChatNotInitialized ==
    last_request # NoRequest =>
        (response.answer = "Chatbot not initialized" /\ response.sources = <<>>)

StatsAndHealthDegraded ==
    /\ last_stats # "none" => last_stats = "not_initialized"
    /\ last_health # "none" => last_health = "degraded"

QueryErrorsAnswered ==
    last_request.retrieval = -1 =>
        (response.answer = "Search error" /\ response.sources = <<>>)

\* C19 as stated: when store or model initialization failed at start-up,
\* every chat request is answered "Chatbot not initialized" with no sources,
\* /api/stats reports not-initialized and /api/health reports degraded; an
\* exception during a query becomes a response with an answer and no sources.
C19_InitFailureReportedEverywhere ==
    /\ (app_pc = "serving" /\ chatbot_error # "") =>
          (ChatNotInitialized /\ StatsAndHealthDegraded)
    /\ QueryErrorsAnswered

\* C19, the part that holds: after any initialization failure chat requests
\* are answered "Chatbot not initialized"; /api/stats and /api/health report
\* the failure when no store object was created; query exceptions become
\* "Search error" responses.
C19_StoreFailureReported ==
    /\ (app_pc = "serving" /\ chatbot_error # "") => ChatNotInitialized
    /\ (app_pc = "serving" /\ ~vectorstore /\ ~chatbot) => StatsAndHealthDegraded
    /\ QueryErrorsAnswered

\* C19 witness: the lite database was missing at start-up; chat, stats and
\* health have all been asked and all report it.
C19_Witness ==
    /\ chatbot_error = "Database not found"
    /\ last_request # NoRequest
    /\ response.answer = "Chatbot not initialized"
    /\ last_stats = "not_initialized"
    /\ last_health = "degraded"

-----------------------------------------------------------------------------
(* C20: concurrent searches *)

\* What a search for n results returns when it runs alone on the store.
AloneResult(n) == FAISSVectorStore_search(QueryInput(<<"a">>, "IndexFlatIP", TRUE, c_hits0), n)

\* C20: however searches interleave, none changes the index, the metadata
\* rows or the database's journal mode, and each returns what it would
\* return if it ran alone.
C20_SearchesIndependent ==
    /\ c_hits = c_hits0
    /\ c_journal = "wal"
    /\ \A t \in Threads : t_pc[t] = "done" => t_ret[t] = AloneResult(t_n[t])

\* C20 witness: one search has returned a result while another, started
\* before it returned, is still in its loop with a row already looked up.
C20_Witness ==
    \E t, u \in Threads :
        /\ t # u
        /\ t_pc[t] = "done"
        /\ t_ret[t].ids # <<>>
        /\ t_pc[u] = "rows"
        /\ c_buf[CallFrame(u)].ids # <<>>
        /\ t_valid[u] # <<>>

-----------------------------------------------------------------------------
(* C21: size of the training sample and number of clusters *)

\* The training sample was stacked and the cluster count computed from it.
ClustersComputed == tr_n_clusters # -1

\* C21 (as stated): once the clusters are computed from a non-empty training
\* sample, the sample holds at most 500,000 vectors and the cluster count is
\* at least 1 and at most 4096.
C21_ClustersAtLeastOne ==
    ClustersComputed =>
        /\ training_vectors <= 500000
        /\ tr_n_clusters >= 1
        /\ tr_n_clusters <= 4096

\* C21 (the part that holds): the sample holds at most 500,000 vectors, the
\* cluster count is at most 4096 and never more than one per 40 vectors of
\* the sample, and it is at least 1 once the sample holds 40 vectors.
C21_SampleAndClustersCapped ==
    ClustersComputed =>
        /\ training_vectors >= 1
        /\ training_vectors <= 500000
        /\ tr_n_clusters >= 0
        /\ tr_n_clusters <= 4096
        /\ tr_n_clusters * 40 <= training_vectors
        /\ (training_vectors >= 40 => tr_n_clusters >= 1)

\* More vectors were gathered than the target, the sample was cut down and
\* the cluster count sits at its cap.
C21_Witness ==
    /\ ClustersComputed
    /\ SeqSum(training_data) > 500000
    /\ training_vectors = 500000
    /\ tr_n_clusters = 4096

-----------------------------------------------------------------------------
(* C22: the compressed build trains once, before it adds anything *)

\* None of the files the training loop looks at (the first 30) is valid.
EmptySample ==
    \A i \in 0..((IF total_files < 30 THEN total_files ELSE 30) - 1) : ~IsValidFile(i)

\* C22: the index of a compressed build is trained at most once, the
\* training happens while the index holds no vector and no metadata row has
\* been written by the build, vectors are added only after the one training,
\* and a build whose training sample is empty fails without training, with
\* no vector in the index and no metadata row inserted or committed.
C22_TrainOnceBeforeAdd ==
    [][/\ train_count' <= 1
       /\ (train_count' > train_count =>
              index = <<>> /\ index' = <<>> /\ txn' = <<>> /\ db' = db /\ global_idx' = 0)
       /\ (use_compressed /\ ~loaded' /\ Len(index') > Len(index) => train_count = 1)
       /\ (pc = "train" /\ pc' \notin {"train", "down"} /\ EmptySample =>
              /\ pc' = "failed"
              /\ train_count' = 0
              /\ index' = <<>>
              /\ txn' = <<>>
              /\ db' = db)
       /\ (pc = "train" /\ pc' = "comp" => ~EmptySample /\ train_count' = 1)
      ]_vars

\* A corpus large enough for the compressed mode, with valid files after
\* the first 30 but none among them: the build has failed on the empty sample.
C22_Witness ==
    /\ pc = "failed"
    /\ use_compressed
    /\ EmptySample
    /\ \E i \in 30..(total_files - 1) : IsValidFile(i)
    /\ train_count = 0
    /\ index = <<>>

-----------------------------------------------------------------------------
(* C23: the lite index and its table *)

\* Position in the lite index of the first vector of its j-th segment.
LiteStart(j) == SegCount(SubSeq(bl_index, 1, j - 1))

\* The rows of a stored segment sit under the idx values at which the index
\* holds the vectors sampled from the same rows of the same file.
LiteRowsAligned(r) ==
    \E j \in 1..Len(bl_index) :
        /\ bl_index[j].file = r.file
        /\ r.idx = LiteStart(j) + r.off
        /\ r.off + r.n <= bl_index[j].n

\* Some selected file made executemany raise.
LiteInsertRaised ==
    \E j \in 0..(NumSelected(bl_total) - 1) : bl_pattern[(Selected(j) % 3) + 1] = "badrow"

\* Some selected file raised before anything of it was kept.
LiteLoadRaised ==
    \E j \in 0..(NumSelected(bl_total) - 1) : bl_pattern[(Selected(j) % 3) + 1] = "unreadable"

\* C23 (as stated): when build_lite.py completes, every stored row is under
\* the idx of its own vector, the index holds as many vectors as the table
\* holds rows, and that number is at most 25,000, whatever a file raised.
C23_LiteIndexMatchesTable ==
    bl_pc = "done" =>
        /\ \A k \in 1..Len(bl_db) : LiteRowsAligned(bl_db[k])
        /\ SegCount(bl_index) = SegCount(bl_db)
        /\ SegCount(bl_index) <= 25000

\* C23 (the part that holds): every stored row is under the idx of its own
\* vector, the index holds at most 25,000 vectors and at least as many as the
\* table holds rows, and exactly as many unless an insert raised.
C23_LiteRowsAligned ==
    bl_pc = "done" =>
        /\ \A k \in 1..Len(bl_db) : LiteRowsAligned(bl_db[k])
        /\ SegCount(bl_db) <= SegCount(bl_index)
        /\ SegCount(bl_index) <= 25000
        /\ (~LiteInsertRaised => SegCount(bl_index) = SegCount(bl_db))

\* The script completed after a file that raised on loading, with samples
\* smaller than their files, the index holding as many vectors as the table rows.
C23_Witness ==
    /\ bl_pc = "done"
    /\ LiteLoadRaised
    /\ ~LiteInsertRaised
    /\ \E j \in 1..Len(bl_index) : bl_index[j].n < LiteFile(bl_index[j].file).n_rows
    /\ Len(bl_index) > 1
    /\ SegCount(bl_db) > 15000
    /\ SegCount(bl_db) = SegCount(bl_index)

-----------------------------------------------------------------------------
(* C24: the text looked up is the text of the aligned row *)

\* C24 (as stated): for every ingested chunk, the text _lookup_text returns
\* for its stored row_num is the chunk_text of the CSV data row at the
\* chunk's own position, the one its embedding was computed from.
C24_LookupReturnsChunkText ==
    \A k \in 1..Len(lk_rows) :
        /\ lk_rows[k] = k - 1
        /\ (lk_found[k] # "unset" => lk_found[k] = lk_csv[k])

\* C24 (the part that holds): row_num is the chunk's 0-based position and
\* _lookup_text reads the data row at that position: it returns the row's
\* chunk_text, except that a chunk_text pandas reads as a missing value
\* comes back as "nan".
C24_LookupReturnsAlignedRow ==
    \A k \in 1..Len(lk_rows) :
        /\ lk_rows[k] = k - 1
        /\ (lk_found[k] # "unset" =>
               lk_found[k] = (IF lk_csv[k] = "NA" THEN "nan" ELSE lk_csv[k]))

\* Every row of a CSV with differing texts was looked up, the last one
\* included, and the lookups returned differing texts.
C24_Witness ==
    /\ Len(lk_rows) >= 3
    /\ \A k \in 1..Len(lk_rows) : lk_found[k] # "unset"
    /\ lk_csv[1] # lk_csv[2]
    /\ lk_csv[2] # lk_csv[3]
    /\ lk_found[1] # lk_found[2]
    /\ lk_found[3] = lk_csv[3]

-----------------------------------------------------------------------------
(* C25: how much metadata is uncommitted during a build *)

\* The source files that have rows in the open transaction.
UncommittedFiles == {txn[k].source_file : k \in 1..Len(txn)}

\* The commit interval of the running build, in files.
Interval == IF use_compressed THEN 50 ELSE 10

\* None of the files the loop has passed was skipped.
NoneSkipped == \A i \in 0..(file_idx - 1) : IsValidFile(i)

\* C25 (as stated): at any point of a build the uncommitted rows belong to
\* at most one commit interval's worth of source files (10 in the flat
\* build, 50 in the compressed one), whichever files are skipped.
C25_UncommittedWithinInterval ==
    pc \in {"flat", "comp"} => Cardinality(UncommittedFiles) <= Interval

\* C25 (the part that holds): as long as no file was skipped, the
\* uncommitted rows belong to the files read since the last multiple of the
\* interval, fewer than one interval's worth.
C25_UncommittedWithinIntervalNoSkip ==
    pc \in {"flat", "comp"} /\ NoneSkipped =>
        /\ Cardinality(UncommittedFiles) < Interval
        /\ \A f \in UncommittedFiles : f >= file_idx - (file_idx % Interval)

\* A build without skips that has committed once and holds rows of a later
\* file in its open transaction.
C25_Witness ==
    /\ pc \in {"flat", "comp"}
    /\ NoneSkipped
    /\ file_idx > Interval
    /\ Len(db) > 0
    /\ UncommittedFiles # {}

-----------------------------------------------------------------------------
(* C26: the counters of the migration *)

\* The files the running (or completed) migration has dealt with.
FilesCounted == processed + skipped + errors

\* One step of a running migration, seen through its counters: each counter
\* grows by at most one, together by one per file passed; a file that fails
\* is counted and the loop moves on; total_added grows by a file's chunk
\* count exactly when the file is counted as processed.
CountersStep ==
    mig_pc \in {"loop", "adding"} /\ mig_pc' \in {"loop", "adding", "done"} =>
        /\ processed' \in {processed, processed + 1}
        /\ skipped' \in {skipped, skipped + 1}
        /\ errors' \in {errors, errors + 1}
        /\ FilesCounted' = FilesCounted + (mig_idx' - mig_idx)
        /\ (errors' > errors => mig_pc' = "loop" /\ mig_idx' = mig_idx + 1)
        /\ total_added' =
             total_added + (IF processed' > processed
                            THEN MigDesc(mig_files[mig_idx]).n_rows ELSE 0)

\* C26: while run_migration loops, every file it has passed is counted in
\* exactly one of processed, skipped and errors, and at completion the three
\* add up to the number of files listed; a file that fails is counted and the
\* loop moves on to the next file; total_added is the sum of the chunk
\* counts of the files counted as processed.
C26_EveryFileCounted ==
    /\ [](mig_pc \in {"loop", "adding"} => FilesCounted = mig_idx - 1)
    /\ [](mig_pc = "done" => FilesCounted = Len(mig_files))
    /\ [][CountersStep]_vars

\* A migration completed after its first file failed: the second file was
\* still processed and its chunks are the total.
C26_Witness ==
    /\ mig_pc = "done"
    /\ Len(mig_files) = 2
    /\ errors = 1
    /\ processed = 1
    /\ mig_files[1] \in {"badshape", "nocol", "mismatch", "unreadable"}
    /\ total_added = MigDesc(mig_files[2]).n_rows

-----------------------------------------------------------------------------
(* C27: resuming the embedding build *)

\* The chunk files whose vectors an index holds.
EmbFilesIn(ix) == {ix[k].file : k \in 1..Len(ix)}

RECURSIVE ChunksOf(_)
\* The number of chunks of a set of chunk files.
ChunksOf(S) ==
    IF S = {} THEN 0
    ELSE LET i == CHOOSE x \in S : TRUE
         IN EmbDesc(emb_csvs[i]).n + ChunksOf(S \ {i})

\* C27 (as stated): when a re-run of the embedding build completes, the
\* final index holds the vectors of every chunk file that has a saved .npy,
\* as many as an uninterrupted run would have indexed.
C27_ResumedIndexComplete ==
    e_pc = "done" /\ processed_files # {} =>
        /\ EmbFilesIn(index_full) = npy
        /\ SegCount(index_full) = ChunksOf(npy)

\* C27 (the part that holds): a run never processes a file that had a saved
\* .npy when it started: such a file is not among the files to process, is
\* never encoded and never added to the index; the index holds files with a
\* saved .npy only, total_vectors counts its vectors, and the index written
\* at the end is the index of this run.
C27_SavedFilesSkipped ==
    e_pc \in {"loop", "encode", "save", "done"} =>
        /\ processed_files \subseteq npy
        /\ \A k \in 1..Len(e_files) : e_files[k] \notin processed_files
        /\ EmbFilesIn(e_index) \cap processed_files = {}
        /\ EmbFilesIn(e_index) \subseteq npy
        /\ total_vectors = SegCount(e_index)
        /\ (e_pc \in {"encode", "save"} => e_files[e_i] \notin npy)
        /\ (e_pc = "done" => index_full = e_index)

\* A re-run has completed: it skipped a file saved by an earlier run and
\* indexed another one.
C27_Witness ==
    /\ e_pc = "done"
    /\ processed_files # {}
    /\ e_index # <<>>
    /\ Len(e_files) < Len(emb_csvs)

-----------------------------------------------------------------------------
(* C28: the retry loop of the embedding build *)

\* What every state of the retry loop satisfies: at most 3 attempts, a batch
\* size of 8 before the first out-of-memory error and of 4 after it, and no
\* further attempt once an attempt raised another RuntimeError.
RetryBounded ==
    /\ e_attempt <= 3
    /\ local_batch >= 4
    /\ (e_pc = "encode" => e_attempt < 3 /\ local_batch = (IF e_attempt = 0 THEN 8 ELSE 4))
    /\ (e_last = "rt" => e_pc \notin {"encode", "save"})

\* An attempt that fails: after an out-of-memory error the batch size is
\* halved but not below 4; the file gets no .npy and no vector; when the
\* attempts are over the loop is at the next file.
FailedAttemptStep ==
    e_pc = "encode" /\ e_pc' \in {"encode", "loop"} =>
        /\ npy' = npy
        /\ e_index' = e_index
        /\ total_vectors' = total_vectors
        /\ (e_last' = "oom" =>
               local_batch' = (IF local_batch >= 8 THEN local_batch \div 2 ELSE 4))
        /\ (e_last' = "rt" => e_pc' = "loop")
        /\ (e_pc' = "loop" => e_i' = e_i + 1 /\ e_files' = e_files)
        /\ (e_pc' = "encode" => e_last' = "oom" /\ e_i' = e_i)

\* C28: the encoding of a file is attempted at most 3 times; the batch size
\* is halved after each out-of-memory error and never goes below 4; another
\* RuntimeError ends the attempts at once; a file whose encoding failed gets
\* no .npy and no vectors in the index, and the loop goes on with the next
\* file.
C28_RetriesBounded == []RetryBounded /\ [][FailedAttemptStep]_vars

\* The first of two files ran out of memory three times: it was given up
\* without a .npy and the loop is at the second file.
C28_Witness ==
    /\ e_pc = "loop"
    /\ Len(e_files) = 2
    /\ e_i = 2
    /\ e_last = "oom"
    /\ e_attempt = 3
    /\ local_batch = 4
    /\ e_files[1] \notin npy

-----------------------------------------------------------------------------
(* C29: chunk_text *)

\* The text is not a string, is empty or all blanks, or spells "nan".
BlankOrNan ==
    \/ ~ct_text.is_str
    \/ \A i \in 1..Len(ct_text.s) : ct_text.s[i] = " "
    \/ /\ Len(ct_text.s) = 3
       /\ ct_text.s[1] \in {"n", "N"}
       /\ ct_text.s[2] \in {"a", "A"}
       /\ ct_text.s[3] \in {"n", "N"}

\* The chunks are the windows of chunk_size characters that start
\* chunk_size - overlap apart from the first character on, the last ones cut
\* at the end of the text; none is longer than chunk_size and every
\* character of the text is in one of them.
ChunksAsSpecified ==
    LET n == Len(ct_text.s)
        step == ct_size - ct_overlap
    IN /\ \A k \in 1..Len(ct_chunks) :
            /\ (k - 1) * step < n
            /\ Len(ct_chunks[k]) <= ct_size
            /\ ct_chunks[k] =
                 SubSeq(ct_text.s, (k - 1) * step + 1,
                        IF (k - 1) * step + ct_size < n THEN (k - 1) * step + ct_size ELSE n)
       /\ \A p \in 1..n : \E k \in 1..Len(ct_chunks) :
            (k - 1) * step < p /\ p <= (k - 1) * step + Len(ct_chunks[k])

\* What chunk_text returns is right.
ChunkResult ==
    ct_pc = "done" => IF BlankOrNan THEN ct_chunks = <<>> ELSE ChunksAsSpecified

\* Every iteration of the loop brings start closer to the end of the text,
\* so the loop ends after at most len(text) iterations.
ChunkProgress ==
    ct_pc = "loop" /\ ct_pc' = "loop" =>
        Len(ct_text.s) - ct_start' < Len(ct_text.s) - ct_start

\* C29 (as stated): for every text, chunk_size and overlap, chunk_text
\* terminates and returns chunks of at most chunk_size characters that
\* cover the text in order, consecutive chunks starting chunk_size - overlap
\* apart, and an empty list for an empty, blank, non-string or "nan" text.
C29_ChunkTextTotal == []ChunkResult /\ [][ChunkProgress]_vars

\* C29 (the part that holds): the same, for every overlap smaller than
\* chunk_size.
C29_ChunkTextWithSmallOverlap ==
    /\ [](ct_overlap < ct_size => ChunkResult)
    /\ [][ct_overlap < ct_size => ChunkProgress]_vars

\* A text was returned in at least three overlapping chunks, the last one
\* shorter than chunk_size.
C29_Witness ==
    /\ ct_pc = "done"
    /\ ct_overlap >= 1
    /\ ct_overlap < ct_size
    /\ Len(ct_chunks) >= 3
    /\ Len(ct_chunks[Len(ct_chunks)]) < ct_size

-----------------------------------------------------------------------------
(* C30: a search closes its database connection *)

\* C30 (as stated): when a search has returned or raised, every connection
\* it opened is closed.
C30_ConnectionClosedOnEveryPath ==
    cn_pc \in {"returned", "raised"} => cn_open = 0

\* C30 (the part that holds): a search that returns has closed the one
\* connection it opened, if it opened one, a search never holds more than
\* one, and a search whose sqlite3.connect raised has none.
C30_ConnectionClosedOnReturn ==
    /\ cn_open <= 1
    /\ cn_opened <= 1
    /\ (cn_pc = "returned" => cn_open = 0)
    /\ (cn_pc = "raised" /\ cn_get_db = "connect_raises" => cn_opened = 0)

\* A search has returned results after opening a connection, one of its
\* neighbours having had no row.
C30_Witness ==
    /\ cn_pc = "returned"
    /\ cn_opened = 1
    /\ cn_open = 0
    /\ cn_ids >= 1
    /\ cn_ids < Len(cn_selects)

=============================================================================
